---- MODULE Spec2Model ----
(***************************************************************************)
(* A model of bin/logic_optimizer.py: tokenizer, parser, canonicalizer,   *)
(* rewriter (optimize_node_list), printer and process_text.               *)
(*                                                                         *)
(* A text is a sequence of lexemes: the maximal matches of the tokenizer's *)
(* pattern and, between them, the single whitespace characters.  String    *)
(* tests the code makes on characters (startswith, endswith, regular       *)
(* expressions, upper, lower) are tables over the vocabulary below.        *)
(***************************************************************************)
EXTENDS Integers, Sequences, FiniteSets, TLC

\* the module's options (globals), then process_text's locals and its position
VARIABLES USE_COUNT_TRIGGERS, USE_ANY_TRIGGERS, NO_COMPACT,
          pc, original_content, content, tokens, tree, logic_changed, passes,
          new_content, returned, changed, round, loop

(***************************************************************************)
(* Vocabulary                                                              *)
(***************************************************************************)
NL == "\n"
WhiteLex == {" ", "\t", "\r"}
OpLex == {"!=", ">=", "<=", "=", "{", "}", "<", ">", "!"}
CommentLex == {"# c", "#d", "## h", "# e "}
StrLex == {"\"s\""}

\* the words ([^\s=\{\}<>!]+) of the vocabulary
WordLex ==
    {"a", "b", "c", "x", "yes", "no", "Yes", "NO", "YES", "No", "From", "FROM", "has_x", "num_y", "value", "count", "limit",
     "0", "1", "2", "3", "5", "AND", "OR", "NOT", "NOR", "NAND", "and", "or", "not", "Not",
     "owner", "Owner", "OWNER", "this", "THIS", "planet", "root", "ROOT", "from",
     "if", "IF", "else", "while", "switch", "calc_true_if", "trigger", "effect",
     "in_breach_of", "inverted_switch", "hsv", "rgb", "has_flag", "exists",
     "is_same_empire", "is_same_value", "is_owned_by",
     "any_owned_planet", "any_owned_pop_amount", "any_valid_lured_critter_fleet",
     "any_species", "count_owned_planet", "count_species", "count_owned_pop_amount",
     "count_valid_lured_critter_fleet", "None", "PENDING_BLOCK", "@v",
     "ROOT.owner", "owner.ROOT", "root.owner", "owner.root"}

\* format_comment on the comments of the vocabulary
format_comment(v) ==
    IF v = "#d" THEN "# d" ELSE v

\* str.rstrip() on one lexeme
RStripLex(v) ==
    IF v = "# e " THEN "# e" ELSE v

NON_ANY_TRIGGERS == {"count_species", "count_owned_pop_amount"}
NON_COUNT_TRIGGERS == {"any_valid_lured_critter_fleet"}
RAW_BLOCKS == {"in_breach_of", "inverted_switch"}
\* one set object under two names: both hold calc_true_if and AND
EXPLICIT_LOGIC_KEYS == {"OR", "NOR", "NAND", "NOT", "calc_true_if", "AND"}
KEYWORDS_TO_UPPER == {"OR", "NOR", "NAND", "NOT", "calc_true_if", "AND"}
NON_NEGATABLE_SCOPES == {"if", "else_if", "else", "while", "switch", "calc_true_if"}
KEYWORDS_TO_LOWER == {"ROOT", "PREV", "FROMFROM", "THIS", "Owner", "Controller",
                      "From", "FromFrom", "Root", "Prev", "BREAK", "CONTINUE"}
VAL_KEYWORDS_TO_LOWER == {"ROOT", "PREV", "FROMFROM", "THIS", "Owner", "Controller",
                          "From", "FromFrom", "Root", "Prev",
                          "Yes", "No", "YES", "NO", "FROM"}
KEYWORDS_TO_LOWER_LIST == {"ROOT", "PREV", "FROMFROM", "THIS", "Owner", "Controller",
                           "From", "FromFrom", "Root", "Prev",
                           "FROM", "OWNER", "EFFECT", "TRIGGER", "SWITCH", "IF",
                           "ELSE", "ELSE_IF", "LIMIT", "WHILE"}

\* str.lower() and str.upper() on the vocabulary
Lower(k) ==
    CASE k = "Owner" -> "owner" [] k = "OWNER" -> "owner" [] k = "THIS" -> "this"
      [] k = "IF" -> "if" [] k = "LIMIT" -> "limit" [] k = "ROOT" -> "root"
      [] k = "Yes" -> "yes" [] k = "YES" -> "yes" [] k = "No" -> "no" [] k = "NO" -> "no"
      [] k = "From" -> "from" [] k = "FROM" -> "from"
      [] k = "AND" -> "and" [] k = "OR" -> "or" [] k = "NOT" -> "not"
      [] k = "NOR" -> "nor" [] k = "NAND" -> "nand" [] k = "Not" -> "not"
      [] OTHER -> k

Upper(k) ==
    CASE k = "and" -> "AND" [] k = "or" -> "OR" [] k = "not" -> "NOT"
      [] k = "nor" -> "NOR" [] k = "nand" -> "NAND" [] k = "Not" -> "NOT"
      [] k = "calc_true_if" -> "CALC_TRUE_IF"
      [] k = "owner" -> "OWNER" [] k = "this" -> "THIS" [] k = "if" -> "IF"
      [] k = "limit" -> "LIMIT" [] k = "yes" -> "YES" [] k = "no" -> "NO"
      [] OTHER -> k

\* key.startswith('any_') / key.startswith('count_') and the renamings
\* 'count_' + key[4:] and 'any_' + key[6:]
StartsAny(k) ==
    k \in {"any_owned_planet", "any_owned_pop_amount", "any_valid_lured_critter_fleet",
           "any_species"}
StartsCount(k) == k \in {"count_owned_planet", "count_species", "count_owned_pop_amount",
                         "count_valid_lured_critter_fleet"}
CountOfAny(k) ==
    CASE k = "any_owned_planet" -> "count_owned_planet"
      [] k = "any_owned_pop_amount" -> "count_owned_pop_amount"
      [] k = "any_valid_lured_critter_fleet" -> "count_valid_lured_critter_fleet"
      [] k = "any_species" -> "count_species"
      [] OTHER -> k
AnyOfCount(k) ==
    CASE k = "count_owned_planet" -> "any_owned_planet"
      [] k = "count_species" -> "any_species"
      [] k = "count_owned_pop_amount" -> "any_owned_pop_amount"
      [] k = "count_valid_lured_critter_fleet" -> "any_valid_lured_critter_fleet"
      [] OTHER -> k

\* key.startswith(('has_', 'num_'))
StartsHasNum(k) == k \in {"has_x", "num_y", "has_flag"}
\* is_decimal_re.match
IsDecimal(v) == v \in {"0", "1", "2", "3", "5"}
\* SCOPES_RE.match
ScopesMatch(k) == k \in {"owner", "this", "planet", "root", "from"}
\* key.endswith(compact_nodes)
EndsCompact(k) == k \in {"NOT", "switch", "inverted_switch", "has_flag"}
\* key.endswith(not_compact_nodes)
EndsNotCompact(k) ==
    k \in {"NOR", "OR", "NAND", "AND", "if", "else", "while", "calc_true_if", "switch",
           "inverted_switch", "effect"}
normal_nodes == {"limit", "trigger"}
force_compact_keys == {"hsv", "rgb", "rgb255"}

negated_ops(o) ==
    CASE o = ">" -> "<=" [] o = "<" -> ">=" [] o = ">=" -> "<"
      [] o = "<=" -> ">" [] o = "!=" -> "=" [] o = "=" -> "!="
      [] OTHER -> "None"
InNegatedOps(o) == o \in {">", "<", ">=", "<=", "!=", "="}

(***************************************************************************)
(* Nodes.  Every dict of the program is a record with all fields; a field  *)
(* the dict does not hold has the value shown in Blank.                    *)
(*   kind: "leaf" (val a string), "block" (val a list: kids), "bare"      *)
(*         (val None), "pending" (val the string 'PENDING_BLOCK')          *)
(*   op:   "" when the dict has no 'op', "None" when it is None            *)
(*   ctext, cm_open, cm_close, cm_inline, raw: texts (lexeme sequences)    *)
(*   tstart, tlex: '_token_start' as an offset and as a lexeme index      *)
(*   oid:  identity of a dict while optimize_node_list's third loop runs   *)
(***************************************************************************)
Blank ==
    [type |-> "node", key |-> "", op |-> "", kind |-> "bare", val |-> "",
     kids |-> <<>>, val_key |-> "", ctext |-> <<>>, cm_open |-> <<>>,
     cm_close |-> <<>>, cm_inline |-> <<>>, cm_prec |-> <<>>, tstart |-> -1,
     tlex |-> 0, raw |-> <<>>, oid |-> 0]

Comment(t) == [Blank EXCEPT !.type = "comment", !.kind = "leaf", !.ctext = t]
Leaf(k, o, v) == [Blank EXCEPT !.key = k, !.op = o, !.kind = "leaf", !.val = v]
Block(k, ks) == [Blank EXCEPT !.key = k, !.op = "=", !.kind = "block", !.kids = ks]

IsNode(n) == n.type = "node"
IsComment(n) == n.type = "comment"
IsBlock(n) == n.type = "node" /\ n.kind = "block"
\* isinstance(node.get('val'), list), for any dict
HasListVal(n) == n.kind = "block" /\ n.type = "node"

\* [c for c in xs if c['type'] == 'node']
RECURSIVE NodesOf(_)
NodesOf(xs) ==
    IF xs = <<>> THEN <<>>
    ELSE IF Head(xs).type = "node" THEN <<Head(xs)>> \o NodesOf(Tail(xs))
    ELSE NodesOf(Tail(xs))

RECURSIVE CommentsOf(_)
CommentsOf(xs) ==
    IF xs = <<>> THEN <<>>
    ELSE IF Head(xs).type = "comment" THEN <<Head(xs)>> \o CommentsOf(Tail(xs))
    ELSE CommentsOf(Tail(xs))

RECURSIVE Flat(_)
Flat(xss) == IF xss = <<>> THEN <<>> ELSE Head(xss) \o Flat(Tail(xss))

Range(s) == {s[i] : i \in DOMAIN s}

(***************************************************************************)
(* Texts                                                                   *)
(***************************************************************************)
IsSpaceLex(l) == l \in WhiteLex \/ l = NL

\* str.rstrip() and str.strip() of a text
RECURSIVE RStrip(_)
RStrip(t) ==
    IF t = <<>> THEN <<>>
    ELSE IF IsSpaceLex(t[Len(t)]) THEN RStrip(SubSeq(t, 1, Len(t) - 1))
    ELSE SubSeq(t, 1, Len(t) - 1) \o <<RStripLex(t[Len(t)])>>

RECURSIVE LStrip(_)
LStrip(t) ==
    IF t = <<>> THEN <<>>
    ELSE IF IsSpaceLex(Head(t)) THEN LStrip(Tail(t))
    ELSE t

Strip(t) == RStrip(LStrip(t))

\* str.rstrip('}')
RECURSIVE RStripBrace(_)
RStripBrace(t) ==
    IF t = <<>> THEN <<>>
    ELSE IF t[Len(t)] = "}" THEN RStripBrace(SubSeq(t, 1, Len(t) - 1))
    ELSE t

\* content.replace('\r\n', '\n')
NormalizeNewlines(t) ==
    LET kept == SelectSeq([i \in 1..Len(t) |-> i],
                          LAMBDA i : ~(t[i] = "\r" /\ i < Len(t) /\ t[i + 1] = NL))
    IN [k \in 1..Len(kept) |-> t[kept[k]]]

(***************************************************************************)
(* 1. Tokenizer                                                            *)
(***************************************************************************)
\* the alternatives of token_pattern in order; a lexeme that begins with #
\* (a comment of the vocabulary, or one Relex joined) is none of the others
TokType(l) ==
    IF l \in StrLex THEN "str"
    ELSE IF l \in OpLex THEN "op"
    ELSE IF l \in WordLex THEN "word"
    ELSE "comment"

\* the number of characters of lexemes lo..hi of a text
RECURSIVE Chars(_, _, _)
Chars(text, lo, hi) ==
    IF lo > hi THEN 0
    ELSE IF lo = hi THEN Len(text[lo])
    ELSE LET mid == (lo + hi) \div 2
         IN Chars(text, lo, mid) + Chars(text, mid + 1, hi)

\* tokenize: one token per match of token_pattern.  For the match at lexeme i:
\* line counts the newlines before it, pre is the whitespace since the last
\* newline or match, start and end are its offsets
tokenize(text) ==
    LET matches == SelectSeq([i \in 1..Len(text) |-> i], LAMBDA i : ~IsSpaceLex(text[i]))
        Token(i) ==
            LET l == text[i]
                stops == {j \in 1..(i - 1) : text[j] \notin WhiteLex}
                last == IF stops = {} THEN 0 ELSE CHOOSE j \in stops : \A k \in stops : k <= j
                pos == Chars(text, 1, i - 1)
            IN [type |-> TokType(l),
                val |-> IF l \in CommentLex THEN format_comment(l) ELSE l,
                line |-> 1 + Cardinality({j \in 1..(i - 1) : text[j] = NL}),
                pre |-> SubSeq(text, last + 1, i - 1),
                start |-> pos, end |-> pos + Len(l), lex |-> i]
    IN [k \in 1..Len(matches) |-> Token(matches[k])]

(***************************************************************************)
(* 2. Parser                                                               *)
(***************************************************************************)
\* the first index >= i whose token is no comment (Len(toks) + 1 if none)
RECURSIVE SkipComments(_, _)
SkipComments(toks, i) ==
    IF i > Len(toks) THEN i
    ELSE IF toks[i].type = "comment" THEN SkipComments(toks, i + 1)
    ELSE i

\* the index of the brace closing the block entered at level `level`, scanning
\* from i (0 if the toks end first)
RECURSIVE MatchBrace(_, _, _)
MatchBrace(toks, i, level) ==
    IF i > Len(toks) THEN 0
    ELSE LET l2 == IF toks[i].val = "{" THEN level + 1
                   ELSE IF toks[i].val = "}" THEN level - 1
                   ELSE level
         IN IF l2 = 0 THEN i ELSE MatchBrace(toks, i + 1, l2)

\* get_inline_comment_and_offset: <<comment text, offset>>
get_inline_comment_and_offset(toks, idx, line) ==
    IF idx + 1 <= Len(toks) /\ toks[idx + 1].type = "comment"
       /\ toks[idx + 1].line = line
    THEN <<toks[idx + 1].pre \o <<toks[idx + 1].val>>, 1>>
    ELSE <<<<>>, 0>>

\* the raw-block special case: the index of the closing brace when token i
\* starts `in_breach_of = {` or `inverted_switch = {` with a matching brace
RawBlockEnd(toks, i) ==
    IF toks[i].type = "word" /\ toks[i].val \in RAW_BLOCKS
    THEN LET op_idx == SkipComments(toks, i + 1) IN
         IF op_idx <= Len(toks) /\ toks[op_idx].val = "="
         THEN LET brace_idx == SkipComments(toks, op_idx + 1) IN
              IF brace_idx <= Len(toks) /\ toks[brace_idx].val = "{"
              THEN MatchBrace(toks, brace_idx + 1, 1)
              ELSE 0
         ELSE 0
    ELSE 0

SetLast(xs, n) == SubSeq(xs, 1, Len(xs) - 1) \o <<n>>

\* one iteration of parse's while loop; st = [i, stack, cur, buf, halt, err]
ParseStep(toks, text, st) ==
    LET i == st.i
        token == toks[i]
        rawEnd == RawBlockEnd(toks, i)
        WithPrec(n) == IF st.buf # <<>> THEN [n EXCEPT !.cm_prec = st.buf] ELSE n
    IN
    IF rawEnd > 0 THEN
        [st EXCEPT !.buf = <<>>,
                   !.cur = st.cur \o <<[Blank EXCEPT !.type = "raw_block", !.kind = "leaf",
                                            !.raw = SubSeq(text, token.lex, toks[rawEnd].lex)]>>,
                   !.i = rawEnd + 1]
    ELSE IF token.type = "comment" THEN
        [st EXCEPT !.cur = st.cur \o <<Comment(<<token.val>>)>>,
                   !.buf = st.buf \o <<token.val>>,
                   !.i = i + 1]
    ELSE IF token.val = "}" THEN
        IF st.stack = <<>> THEN [st EXCEPT !.halt = TRUE]
        ELSE LET finished_list == st.cur
                 popped == st.stack[Len(st.stack)]
                 rest == SubSeq(st.stack, 1, Len(st.stack) - 1)
             IN IF popped # <<>> /\ popped[Len(popped)].kind = "pending"
                THEN LET parent_node == popped[Len(popped)]
                         cm == get_inline_comment_and_offset(toks, i, token.line)
                         n1 == [parent_node EXCEPT !.kind = "block", !.kids = finished_list]
                         n2 == IF n1.key = "switch" /\ n1.tstart >= 0
                               THEN [n1 EXCEPT !.raw = SubSeq(text, n1.tlex, token.lex)]
                               ELSE n1
                         n3 == IF cm[1] # <<>> THEN [n2 EXCEPT !.cm_close = cm[1]] ELSE n2
                     IN [st EXCEPT !.stack = rest, !.cur = SetLast(popped, n3),
                                   !.buf = <<>>, !.i = i + cm[2] + 1]
                ELSE [st EXCEPT !.stack = rest, !.cur = popped, !.buf = <<>>, !.i = i + 1]
    ELSE IF token.val = "{" THEN
        IF st.cur # <<>> /\ st.cur[Len(st.cur)].kind = "pending"
        THEN LET cm == get_inline_comment_and_offset(toks, i, token.line)
                 last == st.cur[Len(st.cur)]
                 cur2 == IF cm[1] # <<>>
                         THEN SetLast(st.cur, [last EXCEPT !.cm_open = cm[1]])
                         ELSE st.cur
             IN [st EXCEPT !.stack = st.stack \o <<cur2>>, !.cur = <<>>, !.i = i + cm[2] + 1]
        ELSE [st EXCEPT !.stack = st.stack \o <<st.cur>>, !.cur = <<>>, !.i = i + 1]
    ELSE
        LET look == SkipComments(toks, i + 1)
            is_key_op == look <= Len(toks) /\ toks[look].type = "op"
                         /\ toks[look].val \notin {"{", "}"}
            is_key_block == look <= Len(toks) /\ toks[look].type = "op"
                            /\ toks[look].val = "{"
        IN
        IF is_key_op \/ is_key_block THEN
            LET first == IF is_key_op THEN look + 1 ELSE look
                found == SkipComments(toks, first)
                scan_idx == IF found <= Len(toks) THEN found ELSE first
                is_block == found <= Len(toks) /\ toks[found].val = "{"
            IN
            IF is_block THEN
                [st EXCEPT !.cur = st.cur \o
                               <<WithPrec([Blank EXCEPT !.key = token.val,
                                              !.op = IF is_key_op THEN toks[look].val ELSE "None",
                                              !.kind = "pending", !.tstart = token.start,
                                              !.tlex = token.lex])>>,
                           !.buf = <<>>, !.i = scan_idx]
            ELSE IF scan_idx > Len(toks) THEN [st EXCEPT !.err = TRUE, !.halt = TRUE]
            ELSE
                LET val_token == toks[scan_idx]
                    block_scan_idx == SkipComments(toks, scan_idx + 1)
                    block_follows == block_scan_idx <= Len(toks)
                                     /\ toks[block_scan_idx].val = "{"
                IN
                IF block_follows THEN
                    [st EXCEPT !.cur = st.cur \o
                                   <<WithPrec([Blank EXCEPT !.key = token.val,
                                                  !.op = toks[look].val,
                                                  !.val_key = val_token.val,
                                                  !.kind = "pending", !.tstart = token.start,
                                                  !.tlex = token.lex])>>,
                               !.buf = <<>>, !.i = block_scan_idx]
                ELSE
                    LET cm == get_inline_comment_and_offset(toks, scan_idx, val_token.line)
                        n1 == WithPrec(Leaf(token.val, toks[look].val, val_token.val))
                        n2 == IF cm[1] # <<>> THEN [n1 EXCEPT !.cm_inline = cm[1]] ELSE n1
                    IN [st EXCEPT !.cur = st.cur \o <<n2>>, !.buf = <<>>,
                                  !.i = scan_idx + cm[2] + 1]
        ELSE
            LET cm == get_inline_comment_and_offset(toks, i, token.line)
                n1 == WithPrec([Blank EXCEPT !.key = token.val])
                n2 == IF cm[1] # <<>> THEN [n1 EXCEPT !.cm_inline = cm[1]] ELSE n1
            IN [st EXCEPT !.cur = st.cur \o <<n2>>, !.buf = <<>>, !.i = i + cm[2] + 1]

\* the body of parse's while loop, or nothing once the loop has ended
ParseIter(toks, text, st) ==
    IF st.i > Len(toks) \/ st.halt THEN st ELSE ParseStep(toks, text, st)

\* 2^k iterations of the loop
RECURSIVE ParseRun(_, _, _, _)
ParseRun(toks, text, st, k) ==
    IF k = 0 THEN ParseIter(toks, text, st)
    ELSE CHOOSE r \in {ParseRun(toks, text, half, k - 1) :
                         half \in {ParseRun(toks, text, st, k - 1)}} : TRUE

RECURSIVE Log2Up(_)
Log2Up(n) == IF n <= 1 THEN 0 ELSE 1 + Log2Up((n + 1) \div 2)

\* the while loop: an iteration consumes a token or halts, so Len(toks)
\* iterations end it
ParseLoop(toks, text, st) == ParseRun(toks, text, st, Log2Up(Len(toks)))

\* parse: [tree, err]; err when the program raises (toks[scan_idx] past the end)
parse(toks, text) ==
    LET st == ParseLoop(toks, text,
                        [i |-> 1, stack |-> <<>>, cur |-> <<>>, buf |-> <<>>,
                         halt |-> FALSE, err |-> FALSE])
    IN [tree |-> st.cur, err |-> st.err]


(***************************************************************************)
(* 3. Node equality and common factors                                     *)
(***************************************************************************)
\* n1.get('val') == n2.get('val') for two dicts that are not both blocks
SameVal(n1, n2) ==
    /\ n1.kind = n2.kind
    /\ n1.kind # "block"
    /\ n1.val = n2.val
    /\ n1.raw = n2.raw

RECURSIVE nodes_are_equal(_, _)
nodes_are_equal(n1, n2) ==
    IF n1.type # n2.type THEN FALSE
    ELSE IF n1.type = "comment" THEN n1.ctext = n2.ctext
    ELSE IF n1.key # n2.key THEN FALSE
    ELSE IF n1.op # n2.op THEN FALSE
    ELSE IF n1.kind = "block" /\ n2.kind = "block"
         THEN LET c1 == NodesOf(n1.kids)
                  c2 == NodesOf(n2.kids)
              IN /\ Len(c1) = Len(c2)
                 /\ \A i \in 1..Len(c1) : nodes_are_equal(c1[i], c2[i])
    ELSE SameVal(n1, n2)

\* any(nodes_are_equal(c, x) for x in xs)
EqualsAny(c, xs) == \E i \in 1..Len(xs) : nodes_are_equal(c, xs[i])

\* copy.deepcopy: the copy is a new dict, so it loses the loop identity
RECURSIVE deepcopy(_)
deepcopy(n) ==
    [n EXCEPT !.oid = 0,
              !.kids = [i \in 1..Len(n.kids) |-> deepcopy(n.kids[i])]]

\* _extract_common_and_children: <<common_nodes, modified_and_children>>
_extract_common_and_children(and_children_nodes) ==
    IF and_children_nodes = <<>> THEN <<<<>>, <<>>>>
    ELSE LET first_and_block_nodes == NodesOf(and_children_nodes[1].kids)
             is_everywhere(candidate) ==
                 \A j \in 2..Len(and_children_nodes) :
                     EqualsAny(candidate, NodesOf(and_children_nodes[j].kids))
             common_nodes == SelectSeq(first_and_block_nodes, is_everywhere)
             keep(c) == c.type = "comment" \/ ~EqualsAny(c, common_nodes)
             modified == [j \in 1..Len(and_children_nodes) |->
                             LET child == deepcopy(and_children_nodes[j])
                             IN [child EXCEPT !.kids = SelectSeq(child.kids, keep)]]
         IN <<common_nodes, modified>>

(***************************************************************************)
(* 4.-6. Canonicalizer                                                     *)
(***************************************************************************)
\* original_key.endswith(KEYWORDS_TO_LOWER_END) or .startswith(KEYWORDS_TO_LOWER_START)
HasScopeAffix(k) == k \in {"ROOT.owner", "owner.ROOT"}
LowerAffix(k) ==
    CASE k = "ROOT.owner" -> "root.owner" [] k = "owner.ROOT" -> "owner.root" [] OTHER -> Lower(k)

RECURSIVE lowercase_keys(_)
lowercase_keys(node_list) ==
    [i \in 1..Len(node_list) |->
        LET node == node_list[i] IN
        IF node.type = "node"
        THEN LET is_block == node.kind = "block"
                 original_key == node.key
                 n1 == IF original_key \in KEYWORDS_TO_LOWER \/ HasScopeAffix(original_key)
                          \/ (is_block /\ original_key \in KEYWORDS_TO_LOWER_LIST)
                       THEN [node EXCEPT !.key = LowerAffix(original_key)]
                       ELSE node
             IN IF is_block THEN [n1 EXCEPT !.kids = lowercase_keys(node.kids)] ELSE n1
        ELSE node]

RECURSIVE uppercase_keys(_)
uppercase_keys(node_list) ==
    [i \in 1..Len(node_list) |->
        LET node == node_list[i] IN
        IF node.type = "node" /\ node.kind = "block"
        THEN LET upper_key == Upper(node.key)
                 n1 == IF upper_key \in KEYWORDS_TO_UPPER THEN [node EXCEPT !.key = upper_key]
                       ELSE node
             IN [n1 EXCEPT !.kids = uppercase_keys(node.kids)]
        ELSE node]

\* lowercase_yes_no_values without the recursion into nested blocks
lowercase_yes_no_values_Shallow(node_list) ==
    [i \in 1..Len(node_list) |->
        LET node == node_list[i] IN
        IF node.type = "node" /\ node.kind \in {"leaf", "pending"}
           /\ node.val \in VAL_KEYWORDS_TO_LOWER
        THEN [node EXCEPT !.val = Lower(node.val)]
        ELSE node]

RECURSIVE lowercase_yes_no_values(_)
lowercase_yes_no_values(node_list) ==
    [i \in 1..Len(node_list) |->
        LET node == node_list[i] IN
        IF node.type = "node"
        THEN IF node.kind = "block"
             THEN [node EXCEPT !.kids = lowercase_yes_no_values(node.kids)]
             ELSE IF node.kind \in {"leaf", "pending"} /\ node.val \in VAL_KEYWORDS_TO_LOWER
                  THEN [node EXCEPT !.val = Lower(node.val)]
                  ELSE node
        ELSE node]


(***************************************************************************)
(* 7. Optimize: helpers                                                    *)
(***************************************************************************)
\* what a list holds after the program extended it with a string (a leaf's
\* value taken for a list of children): the next access to it raises
ErrNode == [Blank EXCEPT !.type = "error"]

RECURSIVE HasErr(_)
HasErr(xs) ==
    \E i \in 1..Len(xs) : xs[i].type = "error" \/ HasErr(xs[i].kids)

\* node.get('val') == v for a string v
ValIs(n, v) == n.kind = "leaf" /\ n.type = "node" /\ n.val = v

\* the index in xs of its k-th dict of type 'node'
RECURSIVE NodeIndex(_, _, _)
NodeIndex(xs, k, from) ==
    IF from > Len(xs) THEN 0
    ELSE IF xs[from].type = "node"
         THEN IF k = 1 THEN from ELSE NodeIndex(xs, k - 1, from + 1)
         ELSE NodeIndex(xs, k, from + 1)

\* the first index i of xs with P(xs[i]) (0 if none)
RECURSIVE FirstIndex(_, _, _)
FirstIndex(xs, P(_), from) ==
    IF from > Len(xs) THEN 0
    ELSE IF P(xs[from]) THEN from
    ELSE FirstIndex(xs, P, from + 1)

IsValueOrCountCmp(c) == c.type = "node" /\ c.key \in {"value", "count"} /\ InNegatedOps(c.op)

\* _negate_numerical_comparison_recursively(node, dry_run=True): its result
RECURSIVE CanNegate(_)
CanNegate(node) ==
    IF node.kind # "block" \/ node.type # "node"
    THEN IF node.op = "="
         THEN StartsHasNum(node.key) /\ node.kind = "leaf" /\ node.type = "node" /\ IsDecimal(node.val)
         ELSE InNegatedOps(node.op) /\ node.kind = "leaf" /\ node.type = "node" /\ IsDecimal(node.val)
    ELSE LET children == NodesOf(node.kids) IN
         \/ \E i \in 1..Len(children) : IsValueOrCountCmp(children[i])
         \/ /\ Len(children) = 1
            /\ ~StartsAny(node.key) /\ ~StartsCount(node.key)
            /\ node.key \notin NON_NEGATABLE_SCOPES
            /\ CanNegate(children[1])

\* _negate_numerical_comparison_recursively(node, dry_run=False): the node after it
RECURSIVE Negate(_)
Negate(node) ==
    IF ~CanNegate(node) THEN node
    ELSE IF node.kind # "block"
    THEN IF node.op = "=" THEN [node EXCEPT !.op = ">"]
         ELSE [node EXCEPT !.op = negated_ops(node.op)]
    ELSE LET wide == FirstIndex(node.kids, IsValueOrCountCmp, 1) IN
         IF wide > 0
         THEN [node EXCEPT !.kids[wide].op = negated_ops(node.kids[wide].op)]
         ELSE LET only == NodeIndex(node.kids, 1, 1)
              IN [node EXCEPT !.kids[only] = Negate(node.kids[only])]

_negate_numerical_comparison_recursively(node, dry_run) ==
    [ok |-> CanNegate(node), node |-> IF dry_run THEN node ELSE Negate(node)]

RECURSIVE _is_negation_recursive(_, _, _)
_is_negation_recursive(node1, node2, depth) ==
    IF depth > 10 THEN FALSE
    ELSE IF node1.type # "node" \/ node2.type # "node" THEN FALSE
    ELSE
      \/ /\ node1.key = node2.key /\ node1.op = node2.op /\ node1.op = "="
         /\ \/ ValIs(node1, "yes") /\ ValIs(node2, "no")
            \/ ValIs(node1, "no") /\ ValIs(node2, "yes")
      \/ /\ node1.key = "NOT" /\ node1.kind = "block"
         /\ LET not_children == NodesOf(node1.kids)
            IN Len(not_children) = 1 /\ nodes_are_equal(not_children[1], node2)
      \/ /\ node2.key = "NOT" /\ node2.kind = "block"
         /\ LET not_children == NodesOf(node2.kids)
            IN Len(not_children) = 1 /\ nodes_are_equal(not_children[1], node1)
      \/ /\ node1.key = node2.key /\ node1.kind = "block" /\ node2.kind = "block"
         /\ LET n1_children == NodesOf(node1.kids)
                n2_children == NodesOf(node2.kids)
            IN /\ Len(n1_children) = 1 /\ Len(n2_children) = 1
               /\ _is_negation_recursive(n1_children[1], n2_children[1], depth + 1)

_is_negation(n1, n2) == _is_negation_recursive(n1, n2, 0)

RECURSIVE _is_negation_node(_)
_is_negation_node(node) ==
    IF node.type # "node" THEN FALSE
    ELSE LET is_block == node.kind = "block" IN
      \/ node.key \in {"NOT", "NOR", "NAND"} /\ is_block
      \/ node.op = "=" /\ ValIs(node, "no")
      \/ CanNegate(node)
      \/ /\ is_block
         /\ ~StartsAny(node.key)
         /\ LET children_nodes == NodesOf(node.kids)
            IN /\ Len(children_nodes) = 1
               /\ children_nodes[1].key \notin NON_NEGATABLE_SCOPES
               /\ ~StartsAny(children_nodes[1].key)
               /\ _is_negation_node(children_nodes[1])

\* node.get('val', []) used as a list of children
ValAsList(node) == IF node.kind = "block" THEN node.kids ELSE <<ErrNode>>

\* a new {'key': k, 'op': '=', 'val': <the list object of node>}: it shares the
\* list with node, so it keeps node's identity
Sharing(k, node) == [Block(k, ValAsList(node)) EXCEPT !.oid = node.oid]

RECURSIVE _get_positive_form(_)
_get_positive_form(node) ==
    IF node.key = "NOT" THEN ValAsList(node)
    ELSE IF node.key = "NOR"
    THEN IF node.kind # "block" THEN <<ErrNode>>
         ELSE IF Len(NodesOf(node.kids)) > 1 THEN <<Sharing("OR", node)>>
         ELSE node.kids
    ELSE IF node.key = "NAND" THEN <<Sharing("AND", node)>>
    ELSE LET new_node == deepcopy(node) IN
         IF ValIs(node, "no") THEN <<[new_node EXCEPT !.val = "yes"]>>
         ELSE IF CanNegate(new_node) THEN <<Negate(new_node)>>
         ELSE IF node.kind = "block" /\ Len(NodesOf(node.kids)) = 1
         THEN LET child == NodesOf(node.kids)[1] IN
              IF child.key = "NOR"
              THEN <<[new_node EXCEPT !.kids = <<Block("OR", _get_positive_form(child))>>]>>
              ELSE <<[new_node EXCEPT !.kids = _get_positive_form(child)]>>
         ELSE <<>>


(***************************************************************************)
(* 7. Optimize: the passes over one list (R1, R2, R3, flatten, R5)         *)
(***************************************************************************)
\* parent_key=None
NoParent == "None"

\* the index of the next dict after i that is no comment (0 if none)
RECURSIVE NextNonComment(_, _)
NextNonComment(node_list, i) ==
    IF i + 1 > Len(node_list) THEN 0
    ELSE IF node_list[i + 1].type = "comment" THEN NextNonComment(node_list, i + 1)
    ELSE i + 1

\* {'key': n['key'], 'op': negated_ops.get(n['op']), 'val': v, 'type': 'node'}
negated_comp_node(n) ==
    [Leaf(n.key, negated_ops(n.op), n.val) EXCEPT !.cm_inline = n.cm_inline]

ListVal(n) == IF n.kind = "block" THEN n.kids ELSE <<>>

\* one iteration of the while loop that opens optimize_node_list (the
\* NOT/comparison/NOR merge), at index i: [i, acc, chg], the index and the
\* new_node_list it leaves
MergeComparisonsStep(node_list, i, acc, chg) ==
    LET n1 == node_list[i]
        idx2 == NextNonComment(node_list, i)
    IN
    IF n1.type = "comment" \/ idx2 = 0
    THEN [i |-> i + 1, acc |-> acc \o <<n1>>, chg |-> chg]
    ELSE
    LET n2 == node_list[idx2]
        is_n1_logic == n1.key \in {"NOT", "NOR"}
        is_n1_comp == CanNegate(n1)
        is_n2_comp == CanNegate(n2)
        is_n2_logic == n2.key \in {"NOT", "NOR"}
        idx3 == NextNonComment(node_list, idx2)
    IN
    IF is_n1_logic /\ is_n2_comp
    THEN IF n2.kind = "leaf" /\ n2.val # ""
         THEN IF idx3 > 0 /\ node_list[idx3].key \in {"NOT", "NOR"}
              THEN [i |-> idx3 + 1,
                    acc |-> acc \o <<Block("NOR", ListVal(n1)
                                                  \o SubSeq(node_list, i + 1, idx2 - 1)
                                                  \o <<negated_comp_node(n2)>>
                                                  \o SubSeq(node_list, idx2 + 1, idx3 - 1)
                                                  \o ListVal(node_list[idx3]))>>,
                    chg |-> TRUE]
              ELSE [i |-> idx2 + 1,
                    acc |-> acc \o <<Block("NOR", ListVal(n1)
                                                  \o SubSeq(node_list, i + 1, idx2 - 1)
                                                  \o <<negated_comp_node(n2)>>)>>,
                    chg |-> TRUE]
         ELSE [i |-> i + 1, acc |-> acc \o <<n1>>, chg |-> chg]
    ELSE IF is_n1_comp /\ is_n2_logic /\ n1.kind = "leaf" /\ n1.val # ""
    THEN [i |-> idx2 + 1,
          acc |-> acc \o <<Block("NOR", <<negated_comp_node(n1)>>
                                        \o SubSeq(node_list, i + 1, idx2 - 1)
                                        \o ListVal(n2))>>,
          chg |-> TRUE]
    ELSE [i |-> i + 1, acc |-> acc \o <<n1>>, chg |-> chg]

\* the while loop: `while i < len(node_list)`
RECURSIVE MergeComparisons(_, _, _, _)
MergeComparisons(node_list, i, acc, chg) ==
    IF i > Len(node_list) THEN [list |-> acc, changed |-> chg]
    ELSE CHOOSE r \in {MergeComparisons(node_list, s.i, s.acc, s.chg) :
                          s \in {MergeComparisonsStep(node_list, i, acc, chg)}} : TRUE

\* hoist the children of AND blocks under an implicit-AND parent
IsAndBlock(n) == n.type = "node" /\ n.key = "AND" /\ n.kind = "block"

HoistAnd(node_list, parent_key) ==
    IF parent_key \notin EXPLICIT_LOGIC_KEYS /\ \E i \in 1..Len(node_list) : IsAndBlock(node_list[i])
    THEN [list |-> Flat([i \in 1..Len(node_list) |->
                            IF IsAndBlock(node_list[i]) THEN node_list[i].kids
                            ELSE <<node_list[i]>>]),
          changed |-> TRUE]
    ELSE [list |-> node_list, changed |-> FALSE]

\* merge sibling OR (under OR, NOR) and sibling AND (under AND, NAND, root)
RECURSIVE MergeSiblings(_, _, _, _, _, _)
MergeSiblings(node_list, parent_key, i, merged_list, keys_to_merge_indices, chg) ==
    IF i > Len(node_list) THEN [list |-> merged_list, changed |-> chg]
    ELSE LET node == node_list[i] IN
         IF node.type = "node" /\ node.kind = "block"
         THEN LET key == node.key
                  can_merge == \/ key = "OR" /\ parent_key \in {"OR", "NOR"}
                               \/ key = "AND" /\ parent_key \in {"AND", "NAND", NoParent}
              IN IF can_merge /\ key \in DOMAIN keys_to_merge_indices
                 THEN LET t == keys_to_merge_indices[key]
                      IN MergeSiblings(node_list, parent_key, i + 1,
                             [merged_list EXCEPT ![t].kids = @ \o node.kids],
                             keys_to_merge_indices, TRUE)
                 ELSE MergeSiblings(node_list, parent_key, i + 1, merged_list \o <<node>>,
                          (key :> (Len(merged_list) + 1)) @@ keys_to_merge_indices, chg)
         ELSE MergeSiblings(node_list, parent_key, i + 1, merged_list \o <<node>>,
                            keys_to_merge_indices, chg)

\* one iteration of the inner while loop of the flattening, at index i:
\* [kids, i], the children and the index it leaves (a hoist rescans from i)
FlattenStep(key, kids, i) ==
    LET child == kids[i]
        hoist == /\ child.type = "node" /\ child.kind = "block"
                 /\ \/ child.key = key
                    \/ key = "NOR" /\ child.key = "OR"
                    \/ key = "NAND" /\ child.key = "AND"
        new_children ==
            (IF child.cm_open # <<>> THEN <<Comment(child.cm_open)>> ELSE <<>>)
            \o child.kids
            \o (IF child.cm_close # <<>> THEN <<Comment(child.cm_close)>> ELSE <<>>)
    IN IF hoist
       THEN [kids |-> SubSeq(kids, 1, i - 1) \o new_children \o SubSeq(kids, i + 1, Len(kids)),
             i |-> i]
       ELSE [kids |-> kids, i |-> i + 1]

\* the flattening of one block's children: `while i < len(node['val'])`
RECURSIVE FlattenKids(_, _, _)
FlattenKids(key, kids, i) ==
    IF i > Len(kids) THEN kids
    ELSE CHOOSE r \in {FlattenKids(key, s.kids, s.i) : s \in {FlattenStep(key, kids, i)}} : TRUE

LogicKeys == {"OR", "AND", "NOR", "NAND"}

\* the list object of the dict with identity p is flattened wherever a dict
\* built since the loop began shares it
RECURSIVE FlattenShared(_, _, _)
FlattenShared(xs, p, key) ==
    [i \in 1..Len(xs) |->
        LET n == xs[i] IN
        IF n.type = "node" /\ n.kind = "block" /\ n.oid = p
        THEN [n EXCEPT !.kids = FlattenKids(key, n.kids, 1)]
        ELSE IF n.type = "node" /\ n.kind = "block" /\ n.key \in LogicKeys
        THEN [n EXCEPT !.kids = FlattenShared(n.kids, p, key)]
        ELSE n]

\* the candidate test of the merge of consecutive negations
IsMergeCandidate(node) ==
    /\ _is_negation_node(node)
    /\ ~(/\ node.key = "NOT" /\ node.kind = "block" /\ Len(node.kids) = 1
         /\ node.kids[1].key \in {"OR", "AND"})

RECURSIVE SequenceEnd(_, _)
SequenceEnd(node_list, j) ==
    IF j > Len(node_list) THEN j
    ELSE IF IsMergeCandidate(node_list[j]) \/ node_list[j].type = "comment"
         THEN SequenceEnd(node_list, j + 1)
    ELSE j

\* what one item of a sequence adds to combined_children
CombinedOf(item) ==
    IF item.type = "comment" THEN <<item>>
    ELSE LET positive_children == _get_positive_form(item)
             cm_open == item.cm_open
         IN IF cm_open # <<>> /\ positive_children # <<>>
            THEN IF Len(positive_children) = 1
                 THEN LET first_child == positive_children[1] IN
                      IF first_child.type = "node"
                      THEN IF first_child.kind = "block"
                           THEN <<[first_child EXCEPT !.cm_open = @ \o cm_open]>>
                           ELSE <<[first_child EXCEPT !.cm_inline = @ \o cm_open]>>
                      ELSE <<Comment(cm_open)>> \o positive_children
                 ELSE <<Comment(cm_open)>> \o positive_children
            ELSE positive_children

\* one iteration of the while loop that merges consecutive negations, at
\* index i: [i, new_list, chg]; a run of candidates is consumed up to j
MergeNegationsStep(node_list, parent_key, i, new_list, chg) ==
    LET node == node_list[i] IN
    IF ~IsMergeCandidate(node)
    THEN [i |-> i + 1, new_list |-> new_list \o <<node>>, chg |-> chg]
    ELSE LET j == SequenceEnd(node_list, i + 1)
             sequence == SubSeq(node_list, i, j - 1)
             node_items == NodesOf(sequence)
         IN IF /\ Len(node_items) > 1
               /\ \E k \in 1..Len(node_items) : node_items[k].key \in {"NOT", "NOR", "NAND"}
            THEN LET new_key == IF parent_key \in {"OR", "NOR", "NOT"} THEN "NAND" ELSE "NOR"
                     combined_children ==
                         Flat([k \in 1..Len(sequence) |-> CombinedOf(sequence[k])])
                 IN [i |-> j, new_list |-> new_list \o <<Block(new_key, combined_children)>>,
                     chg |-> TRUE]
            ELSE [i |-> i + 1, new_list |-> new_list \o <<node>>, chg |-> chg]

\* the merge of consecutive negations: `while i < len(node_list)`
RECURSIVE MergeNegations(_, _, _, _, _)
MergeNegations(node_list, parent_key, i, new_list, chg) ==
    IF i > Len(node_list) THEN [list |-> new_list, changed |-> chg]
    ELSE CHOOSE r \in
             {MergeNegations(node_list, parent_key, s.i, s.new_list, s.chg) :
                 s \in {MergeNegationsStep(node_list, parent_key, i, new_list, chg)}} : TRUE

\* the for loop over the list: for its p-th dict, flatten that dict's
\* children, then merge the consecutive negations of the current list
RECURSIVE FlattenAndMerge(_, _, _, _, _)
FlattenAndMerge(origs, parent_key, p, node_list, chg) ==
    IF p > Len(origs) THEN [list |-> node_list, changed |-> chg]
    ELSE LET node == origs[p]
             flat == IF node.type = "node" /\ node.kind = "block" /\ node.key \in LogicKeys
                     THEN FlattenShared(node_list, p, node.key)
                     ELSE node_list
             merged == IF parent_key \in NON_NEGATABLE_SCOPES
                       THEN [list |-> flat, changed |-> FALSE]
                       ELSE MergeNegations(flat, parent_key, 1, <<>>, FALSE)
         IN FlattenAndMerge(origs, parent_key, p + 1, merged.list,
                            chg \/ merged.changed
                            \/ (node.kind = "block" /\ node.key \in LogicKeys
                                /\ FlattenKids(node.key, node.kids, 1) # node.kids))

\* the dicts of a list get the identities 1..Len, and lose them
Tagged(node_list) == [i \in 1..Len(node_list) |-> [node_list[i] EXCEPT !.oid = i]]

RECURSIVE Untagged(_)
Untagged(xs) ==
    [i \in 1..Len(xs) |->
        IF xs[i].kind = "block" /\ (xs[i].oid # 0 \/ xs[i].key \in LogicKeys)
        THEN [xs[i] EXCEPT !.oid = 0, !.kids = Untagged(xs[i].kids)]
        ELSE [xs[i] EXCEPT !.oid = 0]]


(***************************************************************************)
(* 7. Optimize: the rules applied to one block of the list                 *)
(***************************************************************************)
CmpOps == {"<", ">", "<=", ">=", "=", "!="}

\* the branch for keys that start with any_: [node, key, chg]
AnyRule(node, key) ==
    LET children == node.kids
        has_count == \E i \in 1..Len(children) :
                        /\ children[i].type = "node" /\ children[i].key = "count"
                        /\ children[i].op \in CmpOps
        count_key == CountOfAny(key)
    IN IF has_count
       THEN [node |-> [node EXCEPT !.key = count_key], key |-> count_key, changed |-> TRUE]
       ELSE IF USE_COUNT_TRIGGERS /\ ~USE_ANY_TRIGGERS /\ key \notin NON_COUNT_TRIGGERS
       THEN [node |-> [node EXCEPT !.key = count_key,
                                   !.kids = <<Leaf("count", ">=", "1"), Block("limit", children)>>],
             key |-> count_key, changed |-> TRUE]
       ELSE [node |-> node, key |-> key, changed |-> FALSE]

IsPositiveCount(c) ==
    c.key = "count" /\ (\/ c.op \in {">", "!="} /\ ValIs(c, "0")
                        \/ c.op = ">=" /\ ValIs(c, "1"))
IsNegativeCount(c) ==
    c.key = "count" /\ ~IsPositiveCount(c)
    /\ (\/ c.op = "<" /\ ValIs(c, "1")
        \/ c.op = "<=" /\ ValIs(c, "0")
        \/ c.op = "=" /\ ValIs(c, "0"))
IsCountCheck(c) == IsPositiveCount(c) \/ IsNegativeCount(c)
IsLimitBlock(c) == c.key = "limit" /\ c.kind = "block"

\* the last index i of xs with P(xs[i]) (0 if none)
RECURSIVE LastIndex(_, _, _)
LastIndex(xs, P(_), from) ==
    IF from < 1 THEN 0
    ELSE IF P(xs[from]) THEN from
    ELSE LastIndex(xs, P, from - 1)

\* current_children.pop(count_idx); current_children.insert(limit_idx, count_node)
MoveBefore(xs, count_idx, limit_idx) ==
    SubSeq(xs, 1, limit_idx - 1) \o <<xs[count_idx]>>
    \o SubSeq(xs, limit_idx, count_idx - 1) \o SubSeq(xs, count_idx + 1, Len(xs))

\* step 2 of the branch for count_: count goes before limit
OrderCount(node, key) ==
    LET IsCountNode(c) == c.type = "node" /\ c.key = "count"
        IsLimitNode(c) == c.type = "node" /\ c.key = "limit"
        count_idx == LastIndex(node.kids, IsCountNode, Len(node.kids))
        limit_idx == LastIndex(node.kids, IsLimitNode, Len(node.kids))
    IN IF StartsCount(key) /\ node.kind = "block"
          /\ count_idx # 0 /\ limit_idx # 0 /\ count_idx > limit_idx
       THEN [node |-> [node EXCEPT !.kids = MoveBefore(node.kids, count_idx, limit_idx)],
             key |-> key, changed |-> TRUE]
       ELSE [node |-> node, key |-> key, changed |-> FALSE]

\* the branch for keys that start with count_: [node, key, chg]
CountRule(node, key) ==
    LET children == node.kids
        children_nodes == NodesOf(children)
        ci == FirstIndex(children_nodes, IsCountCheck, 1)
        li == FirstIndex(children_nodes, IsLimitBlock, 1)
        count_comparison_node == children_nodes[ci]
        limit_node == children_nodes[li]
        other_children == SelectSeq(children_nodes,
                              LAMBDA c : c # count_comparison_node /\ (li = 0 \/ c # limit_node))
        any_key == AnyOfCount(key)
        moved == CommentsOf(children) \o limit_node.kids
        converted ==
            IF USE_ANY_TRIGGERS /\ ~USE_COUNT_TRIGGERS /\ key \notin NON_ANY_TRIGGERS
               /\ ci # 0 /\ li # 0 /\ other_children = <<>>
            THEN IF IsNegativeCount(count_comparison_node)
                 THEN [node |-> [node EXCEPT !.key = "NOT", !.op = "=",
                                     !.kids = <<[Block(any_key, moved) EXCEPT
                                                    !.cm_open = node.cm_open,
                                                    !.cm_close = node.cm_close,
                                                    !.cm_inline = node.cm_inline,
                                                    !.cm_prec = node.cm_prec]>>,
                                     !.cm_open = <<>>, !.cm_close = <<>>, !.cm_inline = <<>>],
                       key |-> key, changed |-> TRUE]
                 ELSE [node |-> [node EXCEPT !.key = any_key, !.op = "=", !.kids = moved],
                       key |-> any_key, changed |-> TRUE]
            ELSE [node |-> node, key |-> key, changed |-> FALSE]
        ordered == OrderCount(converted.node, converted.key)
    IN [node |-> ordered.node, key |-> ordered.key,
        changed |-> converted.changed \/ ordered.changed]

\* the indices of a set, ascending
RECURSIVE SortedSeq(_)
SortedSeq(S) ==
    IF S = {} THEN <<>>
    ELSE LET m == CHOOSE x \in S : \A y \in S : x <= y
         IN <<m>> \o SortedSeq(S \ {m})

\* the comments that directly precede index i
RECURSIVE CommentsBefore(_, _)
CommentsBefore(kids, i) ==
    IF i - 1 >= 1 /\ kids[i - 1].type = "comment"
    THEN {i - 1} \cup CommentsBefore(kids, i - 1)
    ELSE {}

\* the merge of sibling scopes of one key inside OR and NOR: [node, chg]
ScopeMerge(node) ==
    LET kids == node.kids
        IsCand(c) == c.type = "node" /\ c.key # "" /\ c.kind = "block"
        GroupOf(k) == {i \in 1..Len(kids) : IsCand(kids[i]) /\ kids[i].key = k}
        MergeKeys == {k \in {kids[i].key : i \in 1..Len(kids)} :
                         Cardinality(GroupOf(k)) > 1 /\ ScopesMatch(k)}
        FirstOf(k) == SortedSeq(GroupOf(k))[1]
        LastOf(k) == SortedSeq(GroupOf(k))[Cardinality(GroupOf(k))]
        Between(a, b) == {j \in (a + 1)..(b - 1) : kids[j].type = "comment"}
        skip == UNION {GroupOf(k) \cup CommentsBefore(kids, FirstOf(k))
                       \cup Between(FirstOf(k), LastOf(k)) : k \in MergeKeys}
        InnerOf(k, idx) ==
            LET members == SortedSeq(GroupOf(k))
                pos == members[idx]
                g_child == kids[pos]
                preceding == IF idx = 1
                             THEN [c \in 1..Len(g_child.cm_prec) |-> Comment(<<g_child.cm_prec[c]>>)]
                             ELSE LET js == SortedSeq(Between(members[idx - 1], pos))
                                  IN [c \in 1..Len(js) |-> Comment(kids[js[c]].ctext)]
                is_inner_or == Len(g_child.kids) = 1 /\ g_child.kids[1].key = "OR"
                body == IF is_inner_or THEN ValAsList(g_child.kids[1])
                        ELSE IF Len(NodesOf(g_child.kids)) > 1
                             THEN <<Block("AND", g_child.kids)>>
                        ELSE g_child.kids
                closing == IF g_child.cm_close # <<>>
                           THEN <<Comment(Strip(g_child.cm_close))>> ELSE <<>>
            IN preceding \o body \o closing
        Merged(k) ==
            Block(k, <<Block("OR", Flat([idx \in 1..Cardinality(GroupOf(k)) |-> InnerOf(k, idx)]))>>)
        new_children_list ==
            Flat([i \in 1..Len(kids) |->
                    IF \E k \in MergeKeys : FirstOf(k) = i
                    THEN <<Merged(kids[i].key)>>
                    ELSE IF i \in skip THEN <<>>
                    ELSE <<kids[i]>>])
    IN [node |-> [node EXCEPT !.kids = new_children_list], changed |-> MergeKeys # {}]

\* the children of an AND without the later duplicates
RECURSIVE Dedup(_, _, _)
Dedup(kids, i, acc) ==
    IF i > Len(kids) THEN acc
    ELSE IF kids[i].type # "comment" /\ EqualsAny(kids[i], SelectSeq(acc, LAMBDA c : c.type # "comment"))
         THEN Dedup(kids, i + 1, acc)
    ELSE Dedup(kids, i + 1, acc \o <<kids[i]>>)

IsNotBlock(c) == c.key = "NOT" /\ c.kind = "block"

\* the rules for key AND: duplicates, then AND of negations to NOR: [node, chg]
AndRule(node) ==
    LET deduped == Dedup(node.kids, 1, <<>>)
        n1 == IF Len(deduped) < Len(node.kids) THEN [node EXCEPT !.kids = deduped] ELSE node
        children_nodes == NodesOf(n1.kids)
        all_negative == /\ children_nodes # <<>>
                        /\ \A i \in 1..Len(children_nodes) :
                              IsNotBlock(children_nodes[i]) \/ ValIs(children_nodes[i], "no")
        new_children ==
            Flat([i \in 1..Len(children_nodes) |->
                    LET child == children_nodes[i] IN
                    IF child.key = "NOT" THEN NodesOf(ListVal(child))
                    ELSE <<[deepcopy(child) EXCEPT !.val = "yes"]>>])
    IN IF all_negative
       THEN [node |-> [n1 EXCEPT !.key = "NOR", !.kids = new_children], changed |-> TRUE]
       ELSE [node |-> n1, changed |-> Len(deduped) < Len(node.kids)]

\* a block with one child is replaced by its children (keys AND, OR, this)
SingleChild(node) ==
    (IF node.cm_open # <<>> THEN <<Comment(Strip(node.cm_open))>> ELSE <<>>)
    \o node.kids
    \o (IF node.cm_close # <<>> THEN <<Comment(Strip(node.cm_close))>> ELSE <<>>)


\* key NOR: one child makes a NOT; common factors of AND children are extracted
NorRule(node) ==
    LET children_nodes == NodesOf(node.kids)
        all_and == \A i \in 1..Len(children_nodes) : IsAndBlock(children_nodes[i])
        ex == _extract_common_and_children(children_nodes)
        common_nodes == ex[1]
        NegationOf(common) ==
            IF ValIs(common, "no") THEN <<[deepcopy(common) EXCEPT !.val = "yes"]>>
            ELSE IF IsNotBlock(common)
                 THEN [i \in 1..Len(common.kids) |-> deepcopy(common.kids[i])]
            ELSE <<Block("NOT", <<deepcopy(common)>>)>>
        remaining_nor_node ==
            [Block("NOR", ex[2]) EXCEPT !.cm_open = node.cm_open, !.cm_close = node.cm_close]
    IN IF Len(children_nodes) = 1
       THEN [node |-> [node EXCEPT !.key = "NOT"], changed |-> TRUE]
       ELSE IF Len(children_nodes) > 1 /\ all_and /\ common_nodes # <<>>
       THEN [node |-> [node EXCEPT !.key = "OR", !.op = "=",
                           !.kids = Flat([i \in 1..Len(common_nodes) |-> NegationOf(common_nodes[i])])
                                    \o <<remaining_nor_node>>,
                           !.cm_open = <<>>, !.cm_close = <<>>],
             changed |-> TRUE]
       ELSE [node |-> node, changed |-> FALSE]

\* child2.get('op') in ('!='): a substring test, which raises for None
OpInNeq(o) == o \in {"!=", "!", "="}

\* the count_ block that a numerical negation produced becomes any_ again
CountToAny(child_copy) ==
    LET children_nodes_2 == NodesOf(child_copy.kids)
        IsCountNeq0(c) == c.key = "count" /\ OpInNeq(c.op) /\ ValIs(c, "0")
        ci == LastIndex(children_nodes_2, IsCountNeq0, Len(children_nodes_2))
        li == LastIndex(children_nodes_2, IsLimitBlock, Len(children_nodes_2))
        other_children == SelectSeq(children_nodes_2,
                              LAMBDA c : (ci = 0 \/ c # children_nodes_2[ci])
                                         /\ (li = 0 \/ c # children_nodes_2[li]))
    IN IF StartsCount(child_copy.key) /\ child_copy.kind = "block"
       THEN IF \E i \in 1..Len(children_nodes_2) :
                   children_nodes_2[i].key = "count" /\ children_nodes_2[i].op \in {"", "None"}
            THEN ErrNode
            ELSE IF ci # 0 /\ li # 0 /\ other_children = <<>>
            THEN [child_copy EXCEPT !.key = AnyOfCount(child_copy.key), !.op = "=",
                                    !.kids = CommentsOf(child_copy.kids) \o children_nodes_2[li].kids]
            ELSE child_copy
       ELSE child_copy

\* node takes the key, operator, value and comments of child (a scope whose
\* only grandchild was negated in place)
HoistChild(node, child, kids) ==
    [node EXCEPT !.key = child.key, !.op = child.op, !.kids = kids,
                 !.cm_open = child.cm_open, !.cm_close = child.cm_close]

NotOfLeaf(node, child, v) ==
    [node EXCEPT !.key = child.key, !.op = child.op, !.kind = "leaf", !.val = v,
                 !.kids = <<>>, !.cm_inline = child.cm_inline \o node.cm_open,
                 !.cm_open = <<>>, !.cm_close = <<>>]

\* a NOT that keeps its key although it has several children
NotToNor_Kept(node) == node

\* a NOT with several children becomes a NOR
NotToNor(node) == [node EXCEPT !.key = "NOR"]

\* key NOT
NotRule(node) ==
    LET children_nodes == NodesOf(node.kids)
        child == children_nodes[1]
        child_key == child.key
        child_copy == deepcopy(child)
        negated == CountToAny(Negate(child_copy))
        hoisted == IF node.cm_open # <<>>
                   THEN [negated EXCEPT !.cm_open = node.cm_open \o @] ELSE negated
        gi == NodeIndex(child.kids, 1, 1)
        grandchild == child.kids[gi]
        scoped == ~StartsAny(child_key) /\ ~StartsCount(child_key)
        Changed(n) == [node |-> n, changed |-> TRUE]
    IN
    IF Len(children_nodes) > 1 THEN Changed(NotToNor(node))
    ELSE IF Len(children_nodes) # 1 THEN [node |-> node, changed |-> FALSE]
    ELSE IF USE_COUNT_TRIGGERS /\ StartsAny(child_key) /\ child.kind = "block"
            /\ child_key # "any_owned_pop_amount"
    THEN Changed([node EXCEPT !.key = CountOfAny(child_key), !.op = "=",
                              !.kids = <<Leaf("count", "=", "0"), Block("limit", child.kids)>>,
                              !.cm_close = <<>>])
    ELSE IF CanNegate(child_copy)
    THEN Changed(IF negated.type = "error" THEN ErrNode
                 ELSE [hoisted EXCEPT !.type = node.type, !.cm_prec = node.cm_prec])
    ELSE IF IsAndBlock(child)
    THEN Changed([node EXCEPT !.key = "NAND", !.kids = child.kids])
    ELSE IF IsNotBlock(child)
    THEN Changed([node EXCEPT !.key = "AND", !.op = "=", !.kids = child.kids,
                              !.cm_open = IF node.cm_open # <<>> \/ child.cm_open # <<>>
                                          THEN Strip(node.cm_open \o <<" ">> \o child.cm_open)
                                          ELSE @,
                              !.cm_close = IF child.cm_close # <<>> THEN child.cm_close ELSE @])
    ELSE IF child.key = "OR" /\ child.kind = "block"
    THEN Changed([node EXCEPT !.key = "NOR", !.kids = child.kids])
    ELSE IF ValIs(child, "yes") THEN Changed(NotOfLeaf(node, child, "no"))
    ELSE IF ValIs(child, "no") THEN Changed(NotOfLeaf(node, child, "yes"))
    ELSE IF child.kind = "block" /\ Len(NodesOf(child.kids)) = 1
    THEN IF grandchild.key = "OR" /\ grandchild.kind = "block" /\ scoped
            /\ child_key \notin NON_NEGATABLE_SCOPES
         THEN Changed(HoistChild(node, child, [child.kids EXCEPT ![gi].key = "NOR"]))
         ELSE IF ValIs(grandchild, "yes") /\ scoped
         THEN Changed(HoistChild(node, child, [child.kids EXCEPT ![gi].val = "no"]))
         ELSE IF ValIs(grandchild, "no") /\ scoped
         THEN Changed(HoistChild(node, child, [child.kids EXCEPT ![gi].val = "yes"]))
         ELSE [node |-> node, changed |-> FALSE]
    ELSE [node |-> node, changed |-> FALSE]

\* key NAND
NandRule(node) ==
    IF Len(NodesOf(node.kids)) = 1
    THEN [node |-> [node EXCEPT !.key = "NOT"], changed |-> TRUE]
    ELSE [node |-> node, changed |-> FALSE]

\* key owner
OwnerRule(node) ==
    LET children_nodes == NodesOf(node.kids)
        child == children_nodes[1]
    IN IF Len(children_nodes) = 1 /\ child.key \in {"is_same_empire", "is_same_value"}
       THEN [node |-> [node EXCEPT !.key = "is_owned_by",
                           !.op = IF child.op = "" THEN "None" ELSE child.op,
                           !.kind = child.kind, !.val = child.val, !.kids = child.kids,
                           !.cm_inline = IF child.cm_inline # <<>> THEN child.cm_inline ELSE @,
                           !.cm_open = IF child.cm_open # <<>> THEN child.cm_open ELSE @,
                           !.cm_close = IF child.cm_close # <<>> THEN child.cm_close ELSE @],
             changed |-> TRUE]
       ELSE [node |-> node, changed |-> FALSE]


\* the indices in xs of its dicts that satisfy P, ascending
IndicesOf(xs, P(_)) == SortedSeq({i \in 1..Len(xs) : P(xs[i])})

IsOrOperandAnd(c) == c.type = "node" /\ c.key = "AND" /\ c.kind = "block"
IsOrOperandOther(c) == c.type = "node" /\ ~(c.key = "AND" /\ c.kind = "block")

\* the rebuild of an OR's children after (A AND B) OR (NOT B) was found
RECURSIVE RebuildOr(_, _, _, _, _, _, _, _)
RebuildOr(kids, i, and_block, not_b, A_to_insert, and_found, other_found, acc) ==
    IF i > Len(kids) THEN acc
    ELSE LET or_child == kids[i]
             is_and == nodes_are_equal(or_child, and_block)
             is_not_b == nodes_are_equal(or_child, not_b)
         IN IF ~and_found /\ ~other_found
            THEN IF is_and
                 THEN RebuildOr(kids, i + 1, and_block, not_b, A_to_insert, TRUE, other_found,
                                acc \o <<not_b>> \o A_to_insert)
                 ELSE IF is_not_b
                 THEN RebuildOr(kids, i + 1, and_block, not_b, A_to_insert, and_found, TRUE,
                                acc \o <<not_b>>)
                 ELSE RebuildOr(kids, i + 1, and_block, not_b, A_to_insert, and_found,
                                other_found, acc \o <<or_child>>)
            ELSE IF is_and /\ ~and_found
                 THEN RebuildOr(kids, i + 1, and_block, not_b, A_to_insert, TRUE, other_found,
                                acc \o A_to_insert)
                 ELSE IF is_not_b /\ ~other_found
                 THEN RebuildOr(kids, i + 1, and_block, not_b, A_to_insert, and_found, TRUE, acc)
                 ELSE IF ~is_and /\ ~is_not_b
                 THEN RebuildOr(kids, i + 1, and_block, not_b, A_to_insert, and_found,
                                other_found, acc \o <<or_child>>)
                 ELSE RebuildOr(kids, i + 1, and_block, not_b, A_to_insert, and_found,
                                other_found, acc)

\* one round of the while loop below, for the pair it found: child
\* and_child_to_remove of the AND block at and_at, negated by the child at other_at
AbsorbOne(kids, and_at, other_at, and_child_to_remove) ==
    LET and_block_to_process == kids[and_at]
        A_content == SelectSeq(and_block_to_process.kids,
                               LAMBDA c : ~nodes_are_equal(c, and_child_to_remove))
        A_nodes == NodesOf(A_content)
        shrunk == IF Len(A_nodes) > 1 THEN [and_block_to_process EXCEPT !.kids = A_content]
                  ELSE and_block_to_process
        A_to_insert == IF Len(A_nodes) = 1 THEN A_content
                       ELSE IF Len(A_nodes) > 1 THEN <<shrunk>>
                       ELSE <<>>
    IN RebuildOr([kids EXCEPT ![and_at] = shrunk], 1, shrunk, kids[other_at], A_to_insert,
                 FALSE, FALSE, <<>>)

\* the first pair the nested for loops find among hits (triples of the index of
\* an AND block, of another child, and of a child of the AND block)
FirstHit(hits) ==
    LET Before(t, u) == \/ t[1] < u[1]
                        \/ t[1] = u[1] /\ t[2] < u[2]
                        \/ t[1] = u[1] /\ t[2] = u[2] /\ t[3] <= u[3]
    IN CHOOSE t \in hits : \A u \in hits : Before(t, u)

\* one round of the while loop (A AND B) OR (NOT B) => (NOT B) OR A:
\* [kids, again], again being made_change_ab_not_b
AbsorbStep(kids) ==
    LET and_idx == IndicesOf(kids, IsOrOperandAnd)
        other_idx == IndicesOf(kids, IsOrOperandOther)
        AndChildren(a) == NodesOf(kids[and_idx[a]].kids)
        hits == {t \in (1..Len(and_idx)) \X (1..Len(other_idx)) \X (1..Len(kids)) :
                    /\ t[3] <= Len(AndChildren(t[1]))
                    /\ _is_negation(AndChildren(t[1])[t[3]], kids[other_idx[t[2]]])}
    IN IF and_idx = <<>> \/ other_idx = <<>> \/ hits = {}
       THEN [kids |-> kids, again |-> FALSE]
       ELSE CHOOSE r \in {[kids |-> AbsorbOne(kids, and_idx[hit[1]], other_idx[hit[2]],
                                              AndChildren(hit[1])[hit[3]]),
                           again |-> TRUE] : hit \in {FirstHit(hits)}} : TRUE

\* the while loop `while made_change_ab_not_b`: [kids, changed]
RECURSIVE AbsorbNegated(_, _)
AbsorbNegated(kids, chg) ==
    CHOOSE r \in {IF s.again THEN AbsorbNegated(s.kids, TRUE)
                  ELSE [kids |-> kids, changed |-> chg] : s \in {AbsorbStep(kids)}} : TRUE

\* (NOT A) OR (A AND (NOT C)) => NAND = { A C }, for an OR of two children
NandOfOrAnd(node, children) ==
    LET c1 == children[1]
        c2 == children[2]
        and_node == IF IsAndBlock(c1) THEN c1 ELSE c2
        not_a_node_candidate == IF IsAndBlock(c1) THEN c2 ELSE c1
        and_children == NodesOf(and_node.kids)
        IsOperand(c) == ~IsNotBlock(c)
        ni == LastIndex(and_children, IsNotBlock, Len(and_children))
        ai == LastIndex(and_children, IsOperand, Len(and_children))
        a_node_candidate == and_children[ai]
        case1 == /\ ValIs(not_a_node_candidate, "no")
                 /\ a_node_candidate.key = not_a_node_candidate.key
                 /\ ValIs(a_node_candidate, "yes")
        case2 == /\ IsNotBlock(not_a_node_candidate)
                 /\ LET not_a_children == NodesOf(not_a_node_candidate.kids)
                    IN /\ Len(not_a_children) = 1
                       /\ nodes_are_equal(not_a_children[1], a_node_candidate)
    IN IF /\ Len(children) = 2
          /\ IsAndBlock(c1) \/ IsAndBlock(c2)
          /\ ai # 0 /\ ni # 0
          /\ case1 \/ case2
       THEN [node |-> [node EXCEPT !.key = "NAND",
                           !.kids = <<a_node_candidate>> \o NodesOf(and_children[ni].kids)],
             changed |-> TRUE]
       ELSE [node |-> node, changed |-> FALSE]

\* OR of NOT blocks, or of negations, becomes NAND (children: the stale list)
NandOfNegations(node, children) ==
    IF \A i \in 1..Len(children) : IsNotBlock(children[i])
    THEN [node |-> [node EXCEPT !.key = "NAND",
                        !.kids = Flat([i \in 1..Len(children) |-> NodesOf(children[i].kids)])],
          changed |-> TRUE]
    ELSE IF /\ \A i \in 1..Len(children) : _is_negation_node(children[i])
            /\ ~(\A i \in 1..Len(children) : CanNegate(children[i]))
    THEN [node |-> [node EXCEPT !.key = "NAND",
                        !.kids = Flat([i \in 1..Len(node.kids) |->
                                          IF node.kids[i].type = "comment" THEN <<node.kids[i]>>
                                          ELSE _get_positive_form(node.kids[i])])],
          changed |-> TRUE]
    ELSE [node |-> node, changed |-> FALSE]

\* OR of one NAND and negations merges into the NAND (children: the stale list)
NandAbsorb(node, children) ==
    LET IsNand(c) == c.key = "NAND"
        IsOther(c) == c.key # "NAND"
        nand_children == SelectSeq(children, IsNand)
        other_children == SelectSeq(children, IsOther)
        PositiveOf(child) ==
            IF child.key = "NOT"
            THEN IF child.kind = "block" THEN NodesOf(child.kids) ELSE <<ErrNode>>
            ELSE <<[child EXCEPT !.val = "yes"]>>
    IN IF /\ Len(nand_children) = 1
          /\ \A i \in 1..Len(other_children) :
                IsNotBlock(other_children[i]) \/ ValIs(other_children[i], "no")
       THEN [node |-> [node EXCEPT !.key = "NAND",
                           !.kids = (IF nand_children[1].kind = "block"
                                     THEN NodesOf(nand_children[1].kids) ELSE <<ErrNode>>)
                                    \o Flat([i \in 1..Len(other_children) |->
                                                PositiveOf(other_children[i])])],
             changed |-> TRUE]
       ELSE [node |-> node, changed |-> FALSE]

\* OR of AND blocks with common factors: the factors go before the OR
\* (children: the stale list): [node, pre, changed]
FactorOr(node, children) ==
    LET ex == _extract_common_and_children(children)
    IN IF /\ Len(children) > 1
          /\ \A i \in 1..Len(children) : IsAndBlock(children[i])
          /\ ex[1] # <<>>
       THEN [node |-> [node EXCEPT !.kids = ex[2]],
             pre |-> [i \in 1..Len(ex[1]) |-> deepcopy(ex[1][i])], changed |-> TRUE]
       ELSE [node |-> node, pre |-> <<>>, changed |-> FALSE]

\* key OR after its while loop: the children list is the one taken before
\* the rules that follow, which do not refresh it
OrAfterLoop(node, absorbed) ==
    LET n1 == [node EXCEPT !.kids = absorbed.kids]
        children == NodesOf(absorbed.kids)
        r2 == NandOfOrAnd(n1, children)
        r3 == NandOfNegations(r2.node, children)
        r4 == NandAbsorb(r3.node, children)
        r5 == FactorOr(r4.node, children)
    IN [node |-> r5.node, pre |-> r5.pre,
        changed |-> absorbed.changed \/ r2.changed \/ r3.changed \/ r4.changed \/ r5.changed]

\* key OR: [node, pre, changed]
OrRule(node) == OrAfterLoop(node, AbsorbNegated(node.kids, FALSE))

(***************************************************************************)
(* 7. Optimize: optimize_node_list                                         *)
(***************************************************************************)
RECURSIVE optimize_node_list(_, _)

\* the rules that depend on how the key starts, and the merge of sibling
\* scopes: [node, key, changed], key being the local `key` of the loop body
KeyRules(n0) ==
    IF StartsAny(n0.key) THEN AnyRule(n0, n0.key)
    ELSE IF StartsCount(n0.key) THEN CountRule(n0, n0.key)
    ELSE IF n0.key \in {"OR", "NOR"}
         THEN LET m == ScopeMerge(n0)
              IN [node |-> m.node, key |-> n0.key, changed |-> m.changed]
    ELSE [node |-> n0, key |-> n0.key, changed |-> FALSE]

\* if key == 'AND': [node, key, changed]
AndStage(a) ==
    IF a.key = "AND"
    THEN LET b == AndRule(a.node)
         IN [node |-> b.node, key |-> a.key, changed |-> a.changed \/ b.changed]
    ELSE a

\* if key == 'NOR' ... elif key == 'OR': [out, changed]
LogicStage(b, c) ==
    LET d == IF b.key = "OR" THEN OrRule(c.node)
             ELSE [node |-> c.node, pre |-> <<>>, changed |-> FALSE]
    IN [out |-> d.pre \o <<d.node>>, changed |-> b.changed \/ c.changed \/ d.changed]

\* if key in ('AND', 'OR', 'this'), then the chain that begins with key NOR
SingleChildStage(b) ==
    IF b.key \in {"AND", "OR", "this"} /\ Len(NodesOf(b.node.kids)) = 1
    THEN [out |-> SingleChild(b.node), changed |-> TRUE]
    ELSE LogicStage(b, IF b.key = "NOR" THEN NorRule(b.node)
                       ELSE IF b.key = "NOT" THEN NotRule(b.node)
                       ELSE IF b.key = "NAND" THEN NandRule(b.node)
                       ELSE IF b.key = "owner" THEN OwnerRule(b.node)
                       ELSE [node |-> b.node, changed |-> FALSE])

\* [r EXCEPT !.changed], after a step that had already set changed_any
Also(chg, r) == [r EXCEPT !.changed = chg \/ r.changed]

\* the body of the last for loop for one dict: what it appends to new_list
\* and whether it set changed_any
OptimizeBlock(node, sub) ==
    IF sub.list = <<ErrNode>> THEN [out |-> <<ErrNode>>, changed |-> TRUE]
    ELSE Also(sub.changed,
              SingleChildStage(AndStage(KeyRules(
                  IF sub.changed THEN [node EXCEPT !.kids = sub.list] ELSE node))))

\* the second for loop, on the list r3 left
FlattenStage(r3, tagged, parent_key) ==
    Also(r3.changed, FlattenAndMerge(tagged, parent_key, 1, tagged, FALSE))

\* the sibling merge and the second for loop, on the list r2 left
SiblingStage(r2, parent_key) ==
    LET r3 == Also(r2.changed, MergeSiblings(r2.list, parent_key, 1, <<>>, <<>>, FALSE))
    IN FlattenStage(r3, Tagged(r3.list), parent_key)

\* the hoisting of AND blocks and what follows, on the list r1 left
HoistStage(r1, parent_key) ==
    SiblingStage(Also(r1.changed, HoistAnd(r1.list, parent_key)), parent_key)

\* the passes over node_list that come before the third loop
Prepared(node_list, parent_key) ==
    LET r5 == HoistStage(MergeComparisons(node_list, 1, <<>>, FALSE), parent_key)
    IN [list |-> Untagged(r5.list), changed |-> r5.changed]

\* new_list and changed_any once the third loop has handled every node
Optimized(merged, res) ==
    LET new_list == Flat([i \in 1..Len(res) |-> res[i].out])
    IN IF HasErr(new_list) THEN [list |-> <<ErrNode>>, changed |-> TRUE]
       ELSE [list |-> new_list,
             changed |-> merged.changed \/ \E i \in 1..Len(res) : res[i].changed]

\* the third loop handles a block after optimize_node_list has handled the
\* block's children
optimize_node_list(node_list, parent_key) ==
    CHOOSE r \in
        {IF HasErr(merged.list) THEN [list |-> <<ErrNode>>, changed |-> TRUE]
         ELSE Optimized(merged,
                  [i \in 1..Len(merged.list) |->
                      LET node == merged.list[i]
                      IN IF node.type = "comment" \/ node.kind # "block"
                            \/ node.type # "node"
                         THEN [out |-> <<node>>, changed |-> FALSE]
                         ELSE IF node.key \in RAW_BLOCKS
                         THEN [out |-> <<>>, changed |-> FALSE]
                         ELSE CHOOSE b \in
                                  {OptimizeBlock(node, sub) :
                                      sub \in {optimize_node_list(node.kids, node.key)}} :
                                  TRUE]) :
            merged \in {Prepared(node_list, parent_key)}} : TRUE


(***************************************************************************)
(* 8. Output builder                                                       *)
(***************************************************************************)
\* membership in the tuple not_compact_nodes (EndsNotCompact is endswith)
not_compact_nodes ==
    {"cost", "upkeep", "produces", "NOR", "OR", "NAND", "AND", "hidden_effect",
     "init_effect", "effect", "settings"} \cup NON_NEGATABLE_SCOPES

\* len(repr(s)) of a string: the quotes, and two characters for \t, \n, \r
RECURSIVE EscLen(_)
EscLen(t) ==
    IF t = <<>> THEN 0
    ELSE (IF Head(t) \in {"\t", "\n", "\r"} THEN 2 ELSE Len(Head(t))) + EscLen(Tail(t))
ReprText(t) == 2 + EscLen(t)
ReprWord(w) == 2 + Len(w)

RECURSIVE Digits(_)
Digits(n) == IF n < 10 THEN 1 ELSE 1 + Digits(n \div 10)

\* len(str(x)) for a list of dicts x and for a dict
RECURSIVE ReprList(_)
RECURSIVE ReprDict(_)
ReprList(xs) ==
    IF xs = <<>> THEN 2
    ELSE LET lens == [i \in 1..Len(xs) |-> ReprDict(xs[i])]
             Sum[i \in 0..Len(xs)] == IF i = 0 THEN 0 ELSE Sum[i - 1] + lens[i]
         IN 2 + Sum[Len(xs)] + 2 * (Len(xs) - 1)

\* each item 'name': value costs the name, two quotes, a colon, a space, the
\* value and, between items, a comma and a space
ReprDict(n) ==
    LET Item(name, v) == Len(name) + 4 + v + 2
        val_len == IF n.kind = "block" THEN ReprList(n.kids)
                   ELSE IF n.kind = "bare" THEN 4
                   ELSE IF n.type = "comment" THEN ReprText(n.ctext)
                   ELSE IF n.type = "raw_block" THEN ReprText(n.raw)
                   ELSE IF n.kind = "pending" THEN 15
                   ELSE ReprWord(n.val)
        RECURSIVE PrecLen(_)
        PrecLen(cs) == IF cs = <<>> THEN 0 ELSE ReprWord(Head(cs)) + 2 + PrecLen(Tail(cs))
    IN Item("type", ReprWord(n.type)) + Item("val", val_len)
       + (IF n.type = "node" THEN Item("key", ReprWord(n.key)) ELSE 0)
       + (IF n.op = "" THEN 0 ELSE IF n.op = "None" THEN Item("op", 4)
          ELSE Item("op", ReprWord(n.op)))
       + (IF n.val_key = "" THEN 0 ELSE Item("val_key", ReprWord(n.val_key)))
       + (IF n.tstart < 0 THEN 0 ELSE Item("_token_start", Digits(n.tstart)))
       + (IF n.cm_prec = <<>> THEN 0 ELSE Item("_cm_preceding", PrecLen(n.cm_prec)))
       + (IF n.cm_inline = <<>> THEN 0 ELSE Item("_cm_inline", ReprText(n.cm_inline)))
       + (IF n.cm_open = <<>> THEN 0 ELSE Item("_cm_open", ReprText(n.cm_open)))
       + (IF n.cm_close = <<>> THEN 0 ELSE Item("_cm_close", ReprText(n.cm_close)))
       + (IF n.raw = <<>> \/ n.type = "raw_block" THEN 0 ELSE Item("_raw", ReprText(n.raw)))

\* len(str(val)) of a child's value
StrLenOfVal(child) ==
    IF child.kind = "block" THEN ReprList(child.kids)
    ELSE IF child.kind = "bare" THEN 4
    ELSE IF child.kind = "pending" THEN 13
    ELSE Len(child.val)

\* should_be_compact; lengths are kept times four (the code halves twice)
RECURSIVE should_be_compact(_)
should_be_compact(node) ==
    IF node.kind # "block" \/ node.type # "node" THEN FALSE
    ELSE IF node.kids = <<>> THEN TRUE
    ELSE
    LET children == node.kids
        key == node.key
        logic_children == NodesOf(children)
        children_len == Len(logic_children)
        no_close == node.cm_close = <<>>
        ChildFits(child) ==
            LET k_len == Len(child.key)
                v_len == StrLenOfVal(child)
                child_len == k_len + v_len + 4
            IN IF child.kind = "block"
               THEN child.key \notin not_compact_nodes /\ should_be_compact(child)
               ELSE /\ child.cm_inline = <<>> /\ child.cm_close = <<>>
                    /\ no_close =>
                          IF children_len = 1 THEN child_len <= 60
                          ELSE ~(v_len > 9 /\ k_len > 29) /\ child_len <= 48
        ChildLen4(child) ==
            4 * (Len(child.key) + StrLenOfVal(child) + (IF child.kind = "block" THEN 0 ELSE 4))
        Total4[i \in 0..children_len] ==
            IF i = 0 THEN 2 * Len(key) + 20 ELSE Total4[i - 1] + ChildLen4(logic_children[i])
        limit4 == IF EndsCompact(key) THEN 640 ELSE 320
    IN
    IF \E i \in 1..Len(children) : children[i].type \in {"comment", "raw_block"} THEN FALSE
    ELSE IF node.cm_open # <<>> THEN FALSE
    ELSE IF node.op = "=" /\ node.val_key \in force_compact_keys THEN TRUE
    ELSE IF children_len > 1 /\ key \in normal_nodes THEN FALSE
    ELSE IF children_len > 2 /\ ~EndsCompact(key) THEN FALSE
    ELSE IF children_len = 1 /\ (EndsCompact(key) \/ IsDecimal(key))
            /\ should_be_compact(logic_children[1]) THEN TRUE
    ELSE /\ \A i \in 1..children_len : ChildFits(logic_children[i])
         /\ ~(Total4[children_len] > limit4 /\ no_close)


\* what a print that raises leaves in the text
ErrLex == "<raise>"

\* "\t" * depth
Indent(depth) == IF depth <= 0 THEN <<>> ELSE [i \in 1..depth |-> "\t"]

\* "\n".join(lines) and " ".join(strs)
RECURSIVE Join(_, _)
Join(lines, sep) ==
    IF lines = <<>> THEN <<>>
    ELSE IF Len(lines) = 1 THEN lines[1]
    ELSE lines[1] \o <<sep>> \o Join(Tail(lines), sep)

\* text.count('\n')
CountNL(t) == Cardinality({i \in 1..Len(t) : t[i] = NL})

\* the op that is printed: node.get('op', '=')
PrintedOp(node) == IF node.op = "" THEN "=" ELSE node.op

\* raw text re-indented: rstrip, rstrip('}'), rstrip, then a newline and a brace
RawToString(raw, indent) ==
    indent \o RStrip(RStripBrace(RStrip(raw))) \o <<NL>> \o indent \o <<"}">>

\* val.startswith('##') of a comment text
StartsHeader(ctext) == ctext # <<>> /\ ctext[1] = "## h"
\* val[1:].startswith(('#', '}', ' }')) of a comment text
IsRootHeader(ctext) ==
    \/ StartsHeader(ctext)
    \/ Len(ctext) >= 2 /\ IsSpaceLex(ctext[1]) /\ ctext[2] \in CommentLex \cup {"# d", "# e", "}"}

HasCloseOrInline(c) == c.cm_inline # <<>> \/ c.cm_close # <<>>

\* the loop over a compact block's children: the first comment of a child
\* moves to the block's closing comment; st = [cm_close, kids, ok]
RECURSIVE CompactScan(_, _, _, _)
CompactScan(children, i, be_compact, st) ==
    IF i > Len(children) \/ ~st.ok THEN st
    ELSE LET c == children[i] IN
         IF ~be_compact /\ st.cm_close = <<>>
         THEN IF c.cm_inline # <<>>
              THEN CompactScan(children, i + 1, be_compact,
                       [st EXCEPT !.cm_close = c.cm_inline,
                                  !.kids = @ \o <<[c EXCEPT !.cm_inline = <<>>]>>])
              ELSE IF c.cm_close # <<>>
              THEN CompactScan(children, i + 1, be_compact,
                       [st EXCEPT !.cm_close = c.cm_close,
                                  !.kids = @ \o <<[c EXCEPT !.cm_close = <<>>]>>])
              ELSE CompactScan(children, i + 1, be_compact, [st EXCEPT !.kids = @ \o <<c>>])
         ELSE IF be_compact /\ HasCloseOrInline(c) THEN [st EXCEPT !.ok = FALSE]
         ELSE CompactScan(children, i + 1, be_compact, [st EXCEPT !.kids = @ \o <<c>>])

\* the blank line before child i (from 2) of a block printed at depth 0:
\* "yes", "no", or "raise" (prev_node_real is None)
AddSpace(children, i) ==
    LET child == children[i]
        prev == children[i - 1]
        is_comment == child.type = "comment"
        is_block == child.kind = "block"
        key == child.key
        comment_is_header == is_comment /\ StartsHeader(child.ctext)
        prev_was_comment == prev.type = "comment"
        prev_was_header == prev_was_comment /\ StartsHeader(prev.ctext)
        prev_is_block == prev.kind = "block"
        IsReal(c) == c.type # "comment"
        pj == LastIndex(children, IsReal, i - 1)
        prev_node_real == children[pj]
        quiet(k) == k \in NON_NEGATABLE_SCOPES \/ EndsCompact(k) \/ k \in KEYWORDS_TO_UPPER
        add_space == /\ \/ ~is_comment /\ (~prev_was_comment \/ prev_was_header)
                        \/ comment_is_header /\ ~prev_was_comment
                        \/ is_comment /\ prev_is_block
                     /\ is_block \/ prev_is_block
    IN IF ~add_space THEN "no"
       ELSE IF ~is_block THEN "yes"
       ELSE IF quiet(key) THEN "no"
       ELSE IF pj = 0 THEN "raise"
       ELSE IF prev_node_real.kind = "block"
            THEN IF key = prev_node_real.key THEN "no"
                 ELSE IF prev_node_real.key # "" /\ quiet(prev_node_real.key) THEN "no"
                 ELSE "yes"
       ELSE IF prev_node_real.key \in {"exists", "optimize_memory"} THEN "no"
       ELSE "yes"

RECURSIVE node_to_string(_, _, _)
node_to_string(node, depth, be_compact) ==
    LET indent == Indent(depth)
        key == node.key
        op == PrintedOp(node)
        val_key_str == IF node.val_key # "" THEN <<node.val_key, " ">> ELSE <<>>
    IN
    IF node.type = "comment" THEN indent \o RStrip(node.ctext)
    ELSE IF node.type = "raw_block" THEN RawToString(node.raw, indent)
    ELSE IF node.type = "error" THEN <<ErrLex>>
    ELSE IF node.kind = "block" THEN
        LET children == node.kids
            is_compactable ==
                /\ ~NO_COMPACT /\ ~be_compact /\ depth # 0
                /\ depth > 1 \/ EndsCompact(key)
                /\ ~EndsNotCompact(key)
                /\ should_be_compact(node)
            scan == CompactScan(children, 1, be_compact,
                                [cm_close |-> node.cm_close, kids |-> <<>>, ok |-> TRUE])
            child_strs == [i \in 1..Len(scan.kids) |-> node_to_string(scan.kids[i], -1, TRUE)]
            compact == indent \o <<key, " ", op, " ">> \o val_key_str
                       \o <<"{", " ">> \o Join(child_strs, " ") \o <<" ", "}">> \o scan.cm_close
            spaces == [i \in 1..Len(children) |->
                          IF i > 1 /\ depth = 0 THEN AddSpace(children, i) ELSE "no"]
            lines == <<indent \o <<key, " ", op, " ">> \o val_key_str \o <<"{">> \o node.cm_open>>
                     \o Flat([i \in 1..Len(children) |->
                                 (IF spaces[i] = "yes" THEN << <<>> >> ELSE <<>>)
                                 \o <<node_to_string(children[i], depth + 1, FALSE)>>])
                     \o <<indent \o <<"}">> \o node.cm_close>>
            formatted_str == Join(lines, NL)
        IN IF (be_compact \/ is_compactable) /\ scan.ok THEN compact
           ELSE IF \E i \in 1..Len(children) : spaces[i] = "raise" THEN <<ErrLex>>
           ELSE IF node.raw # <<>> /\ key = "switch" /\ CountNL(node.raw) < CountNL(formatted_str)
           THEN RawToString(node.raw, indent)
           ELSE formatted_str
    ELSE
        LET cm_inline == IF node.cm_inline # <<>> /\ ~IsSpaceLex(node.cm_inline[1])
                         THEN <<" ">> \o node.cm_inline ELSE node.cm_inline
        IN IF node.kind = "bare" THEN indent \o <<key>> \o cm_inline
           ELSE indent \o <<key, " ", op, " ",
                             IF node.kind = "pending" THEN "PENDING_BLOCK" ELSE node.val>>
                       \o cm_inline

\* the lines block_to_string adds for node i of the list
RootLines(block_list, i) ==
    LET node == block_list[i]
        is_comment_node == node.type = "comment"
        comment_is_header == is_comment_node /\ IsRootHeader(node.ctext)
        is_block == node.type = "raw_block" \/ (node.type = "node" /\ node.kind = "block")
        is_var == node.type = "node" /\ ~is_block /\ node.key \in {"@v"}
        prev_was_comment == i > 1 /\ block_list[i - 1].type = "comment"
        prev_was_header == prev_was_comment /\ IsRootHeader(block_list[i - 1].ctext)
        prev_is_block == i > 1 /\ (\/ block_list[i - 1].type = "raw_block"
                                   \/ block_list[i - 1].type = "node"
                                      /\ block_list[i - 1].kind = "block")
        blank == \/ ~is_comment_node /\ ~is_var /\ (~prev_was_comment \/ prev_was_header)
                 \/ comment_is_header /\ ~prev_was_comment /\ i > 1
                 \/ is_comment_node /\ prev_is_block
        split == node.type = "node" /\ is_block /\ node.cm_open # <<>>
    IN (IF blank THEN << <<>> >> ELSE <<>>)
       \o (IF split THEN <<Strip(node.cm_open)>> ELSE <<>>)
       \o <<node_to_string(IF split THEN [node EXCEPT !.cm_open = <<>>] ELSE node, 0, FALSE)>>

block_to_string(block_list) ==
    Join(Flat([i \in 1..Len(block_list) |-> RootLines(block_list, i)]), NL)


\* the printed text as the tokenizer will read it: a comment runs to the end
\* of its line, so what was printed after it on the line is part of it
RECURSIVE ConcatLex(_)
ConcatLex(t) == IF t = <<>> THEN "" ELSE Head(t) \o ConcatLex(Tail(t))

\* the index of the newline that ends the line of lexeme i (Len(t) + 1 if none)
LineEnd(t, i) ==
    LET ends == {j \in i..Len(t) : t[j] = NL}
    IN IF ends = {} THEN Len(t) + 1 ELSE CHOOSE j \in ends : \A k \in ends : j <= k

\* the index after the newline before lexeme i (1 if none)
LineStart(t, i) ==
    LET ends == {j \in 1..(i - 1) : t[j] = NL}
    IN IF ends = {} THEN 1 ELSE 1 + CHOOSE j \in ends : \A k \in ends : k <= j

IsCommentLex(l) == ~IsSpaceLex(l) /\ TokType(l) = "comment"

Relex(t) ==
    LET InComment(i) == t[i] # NL /\ \E j \in LineStart(t, i)..(i - 1) : IsCommentLex(t[j])
        kept == SelectSeq([i \in 1..Len(t) |-> i], LAMBDA i : ~InComment(i))
    IN [k \in 1..Len(kept) |->
           LET i == kept[k]
           IN IF IsCommentLex(t[i]) THEN ConcatLex(SubSeq(t, i, LineEnd(t, i) - 1))
              ELSE t[i]]


(***************************************************************************)
(* Inputs                                                                  *)
(***************************************************************************)
MaxDepth == 1
MaxKids == 2
MaxTop == 2
MaxRounds == 2

\* words on one line, separated by single spaces
Sp(ws) ==
    [i \in 1..(IF ws = <<>> THEN 0 ELSE 2 * Len(ws) - 1) |->
        IF i % 2 = 1 THEN ws[(i + 1) \div 2] ELSE " "]
Line(ws) == Sp(ws) \o <<NL>>

GenLeaves == {<<"a", "=", "no">>, <<"has_x", ">", "3">>}
GenKeys == {"AND", "OR", "NOT", "NOR", "NAND", "owner"}

\* the concatenations of at most n members of S
RECURSIVE Bodies(_, _)
Bodies(S, n) ==
    IF n = 0 THEN {<<>>}
    ELSE LET shorter == Bodies(S, n - 1)
         IN shorter \cup {b \o x : b \in shorter, x \in S}

RECURSIVE Items(_)
Items(d) ==
    IF d = 0 THEN GenLeaves
    ELSE LET inner == Items(d - 1)
         IN inner \cup {<<k, "=", "{">> \o body \o <<"}">> :
                           k \in GenKeys, body \in Bodies(inner, MaxKids)}

Generated == {Line(ws) : ws \in Bodies(Items(MaxDepth), MaxTop) \ {<<>>}}

LogicSeeds ==
    {Line(<<"NOT", "=", "{", "NOT", "=", "{", "owner", "=", "{", "a", "=", "no", "}",
            "owner", "=", "{", "a", "=", "yes", "a", "=", "no", "}",
            "NAND", "=", "{", "b", "=", "no", "a", "=", "yes", "}", "}", "}">>),
     Line(<<"NOR", "=", "{", "AND", "=", "{", "a", "=", "no", "}", "a", "=", "no", "}",
            "x", "=", "{", "NAND", "=", "{", "a", "=", "no", "a", "=", "yes", "}",
            "OR", "=", "{", "b", "=", "no", "a", "=", "no", "}", "}">>),
     Line(<<"NOT", "=", "{", "has_x", ">", "3", "OR", "=", "{",
            "NAND", "=", "{", "a", "=", "no", "b", "=", "no", "}", "}", "}">>),
     Line(<<"OR", "=", "{", "AND", "=", "{", "a", "=", "no", "}", "b", "=", "yes", "}">>),
     Line(<<"OR", "=", "{", "NOT", "=", "{", "a", "=", "yes", "}", "has_x", ">", "3", "}">>),
     Line(<<"NOT", "=", "{", "has_x", "=", "3", "}">>),
     Line(<<"NOT", "=", "{", "owner", "=", "{", "has_x", ">", "3", "a", "=", "yes", "}",
            "owner", "=", "{", "OR", "=", "{", "b", "=", "yes", "a", "=", "yes", "}",
            "a", "=", "yes", "}", "}">>),
     Line(<<"NOT", "=", "{", "a", "=", "no", "OR", "=", "{", "}", "}">>),
     Line(<<"x", "=", "{", "NOT", "=", "{", "}", "NAND", "=", "{", "}", "}">>),
     Line(<<"OR", "=", "{", "AND", "=", "{", "a", "=", "yes", "b", "=", "yes", "}",
            "AND", "=", "{", "a", "=", "yes", "c", "=", "yes", "}", "}">>),
     Line(<<"NOR", "=", "{", "AND", "=", "{", "a", "=", "yes", "b", "=", "yes", "}",
            "AND", "=", "{", "a", "=", "yes", "c", "=", "yes", "}", "}">>),
     Line(<<"OR", "=", "{", "AND", "=", "{", "a", "=", "yes", "b", "=", "yes", "}",
            "b", "=", "no", "}">>),
     Line(<<"OR", "=", "{", "AND", "=", "{", "a", "=", "yes", "b", "=", "yes", "}",
            "AND", "=", "{", "a", "=", "yes", "b", "=", "yes", "}", "}">>),
     Line(<<"NOT", "=", "{", "OR", "=", "{", "AND", "=", "{", "a", "=", "yes", "b", "=", "yes",
            "}", "AND", "=", "{", "a", "=", "yes", "c", "=", "yes", "}", "}", "}">>),
     Line(<<"NOT", "=", "{", "if", "=", "{", "a", "=", "yes", "}", "}">>),
     Line(<<"OR", "=", "{", "while", "=", "{", "a", "=", "no", "}", "b", "=", "no", "}">>),
     Line(<<"NOT", "=", "{", "if", "=", "{", "has_x", ">", "3", "}", "}">>),
     Line(<<"NOR", "=", "{", "NOR", "=", "{", "a", "=", "yes", "b", "=", "yes", "}",
            "c", "=", "yes", "}">>),
     Line(<<"OR", "=", "{", "OR", "=", "{", "a", "=", "yes", "b", "=", "yes", "}",
            "c", "=", "yes", "}">>),
     Line(<<"OR", "=", "{", "AND", "=", "{", "a", "=", "yes", "b", "=", "yes", "}",
            "b", "=", "no", "b", "=", "no", "}">>),
     Line(<<"OR", "=", "{", "c", "=", "yes", "NOT", "=", "{", "b", "=", "yes", "}",
            "AND", "=", "{", "a", "=", "yes", "b", "=", "yes", "has_x", ">", "3", "}", "}">>),
     Line(<<"in_breach_of", "{", "a", "=", "yes", "}", "b", "=", "yes">>),
     Line(<<"x", "=", "{", "inverted_switch", "{", "a", "=", "yes", "}",
            "NOT", "=", "{", "b", "=", "yes", "}", "}">>),
     Line(<<"x", "=", "ROOT", "b", "=", "Owner", "c", "=", "{", "a", "=", "THIS", "b", "=", "Yes", "}">>),
     Line(<<"Yes", "=", "NO", "x", "=", "{", "a", "=", "From", "b", "=", "FROM", "c", "=", "YES",
            "x", "=", "No", "}">>),
     Line(<<"OR", "=", "{", "and", "=", "{", "a", "=", "Yes", "b", "=", "NO", "}",
            "Owner", "=", "{", "c", "=", "yes", "}", "}">>),
     <<NL>> \o Line(<<"a", "=", "yes">>),
     <<NL>> \o Line(<<"a", "=", "yes">>) \o <<NL>>
        \o Line(<<"NOT", "=", "{", "b", "=", "yes", "c", "=", "yes", "}">>)}

CountSeeds ==
    {Line(<<"any_owned_planet", "=", "{", "a", "=", "yes", "}">>),
     Line(<<"any_owned_planet", "=", "{", "count", ">", "2", "a", "=", "yes", "}">>),
     Line(<<"count_owned_planet", "=", "{", "limit", "=", "{", "a", "=", "yes", "}",
            "count", ">", "0", "}">>),
     Line(<<"count_owned_planet", "=", "{", "count", "=", "0", "limit", "=", "{",
            "a", "=", "yes", "}", "}">>),
     Line(<<"count_owned_planet", "=", "{", "count", ">", "0", "count", ">", "0",
            "limit", "=", "{", "a", "=", "yes", "}", "}">>),
     Line(<<"count_owned_planet", "=", "{", "count", ">", "2", "limit", "=", "{",
            "a", "=", "yes", "}", "}">>),
     Line(<<"count_owned_planet", "=", "{", "count", ">=", "1", "limit", "=", "{",
            "a", "=", "yes", "}", "b", "=", "yes", "}">>),
     Line(<<"count_owned_planet", "=", "{", "count", "<", "1", "limit", "=", "{",
            "a", "=", "yes", "b", "=", "yes", "}", "}">>),
     Line(<<"count_species", "=", "{", "count", "!=", "0", "limit", "=", "{",
            "a", "=", "yes", "}", "}">>),
     Line(<<"NOT", "=", "{", "any_owned_planet", "=", "{", "a", "=", "yes", "}", "}">>),
     Line(<<"NOT", "=", "{", "count_owned_planet", "=", "{", "count", "=", "0", "limit", "=",
            "{", "a", "=", "yes", "}", "}", "}">>)}

LayoutSeeds ==
    {<<"a", " ", "# c", NL, "=", " ", "yes", NL>>,
     <<"x", " ", "=", " ", "1", "\r", NL, "a", " ", "=">>,
     <<"x", " ", "=", " ", "1", "\r", NL, "a", " ", "=", " ", "yes", "\r", NL>>,
     <<"a", " ", "=", " ", "yes", " ", "#d", NL, "## h", NL, "b", " ", "=", " ", "no", NL>>,
     <<"x", " ", "=", " ", "{", " ", "# c", NL, "\t", "AND", " ", "=", " ", "{", " ", "# e ", NL,
       "\t", "\t", "a", " ", "=", " ", "yes", NL, "\t", "}", NL, "}", " ", "#d", NL>>,
     <<"x", " ", "=", " ", "{", NL, "\t", "NOT", " ", "=", " ", "{", " ", "# c", NL,
       "\t", "\t", "a", " ", "=", " ", "yes", NL, "\t", "}", NL, "\t", "# e ", NL,
       "\t", "NOT", " ", "=", " ", "{", " ", "b", " ", "=", " ", "yes", " ", "}", NL, "}", NL>>,
     <<"in_breach_of", " ", "=", " ", "{", NL, "\t", "a", " ", "=", " ", "yes", NL, "}", NL>>,
     <<"x", " ", "=", " ", "{", " ", "hsv", " ", "{", " ", "1", " ", "2", " ", "}", " ", "}", NL>>,
     <<"owner", " ", "=", " ", "{", " ", "a", " ", "=", " ", "yes", NL>>,
     <<"x", " ", "=", " ", "{", " ", "{", " ", "a", " ", "=", " ", "yes", " ", "}", " ",
       "b", " ", "=", " ", "yes", " ", "}", NL>>,
     <<"hsv", " ", "{", " ", "1", " ", "2", " ", "}", NL>>,
     <<"in_breach_of", " ", "=", " ", "{", " ", "a", " ", "=", " ", "{", " ", "b", " ", "=", " ",
       "yes", " ", "}", "}", NL>>,
     <<"switch", " ", "=", " ", "{", " ", "a", " ", "=", " ", "Yes", " ", "}", NL>>,
     <<"switch", " ", "=", " ", "{", " ", "trigger", " ", "=", " ", "a", " ",
       "NOT", " ", "=", " ", "{", " ", "b", " ", "=", " ", "yes", " ", "}", " ", "}", NL>>,
     <<"x", " ", "=", " ", "{", NL, "\t", "b", " ", "=", " ", "{", " ", "x", " ", "=", " ", "{",
       " ", "# c", NL, "\t", "}", " ", "}", NL, "}", NL>>,
     <<"a", " ", "=", " ", "yes", NL, "x", " ", "=", " ", "{", " ", "b", " ", "=", " ", "yes", NL>>,
     <<"switch", " ", "=", " ", "{", " ", "a", " ", "=", " ", "yes", " ", "}", NL>>,
     <<"x", " ", "=", " ", "{", NL, "\t", "## h", NL, "\t", "owner", " ", "=", " ", "{", NL,
       "\t", "\t", "a", " ", "=", " ", "yes", NL, "\t", "\t", "b", " ", "=", " ", "yes", NL,
       "\t", "\t", "c", " ", "=", " ", "yes", NL, "\t", "}", NL, "}", NL>>}

Defaults == [count |-> FALSE, any |-> FALSE, no_compact |-> FALSE]
AllOptions == [count : BOOLEAN, any : BOOLEAN, no_compact : BOOLEAN]

\* an input text with the options it is processed under
Cases ==
    ((Generated \cup LogicSeeds \cup LayoutSeeds) \X {Defaults})
    \cup (CountSeeds \X AllOptions)
    \cup (LayoutSeeds \X {[Defaults EXCEPT !.no_compact = TRUE]})

(***************************************************************************)
(* 9. process_text                                                         *)
(***************************************************************************)
vars == <<USE_COUNT_TRIGGERS, USE_ANY_TRIGGERS, NO_COMPACT, pc, original_content, content,
          tokens, tree, logic_changed, passes, new_content, returned, changed, round, loop>>

options == <<USE_COUNT_TRIGGERS, USE_ANY_TRIGGERS, NO_COMPACT>>

\* optimize_node_list one iteration at a time: where the call is (at), its
\* node_list and parent_key, the index i and the list acc that the loop at
\* hand builds, the list origs the second for loop runs over and its position
\* p, the key and children kids of the block whose loop runs, the depth of the
\* recursion, and the loops that have rewritten something so far (ran)
NotCalled ==
    [at |-> "idle", node_list |-> <<>>, parent_key |-> NoParent, i |-> 0, acc |-> <<>>,
     origs |-> <<>>, p |-> 0, key |-> NoParent, kids |-> <<>>, depth |-> 0, ran |-> {}]

\* the locals of a call that has not assigned them yet
Entered(text) ==
    /\ original_content = text
    /\ content = text
    /\ tokens = <<>>
    /\ tree = <<>>
    /\ logic_changed = FALSE
    /\ passes = 0
    /\ new_content = <<>>
    /\ returned = <<>>
    /\ changed = FALSE

Init ==
    \E case \in Cases :
        /\ USE_COUNT_TRIGGERS = case[2].count
        /\ USE_ANY_TRIGGERS = case[2].any
        /\ NO_COMPACT = case[2].no_compact
        /\ pc = "entered"
        /\ round = 1
        /\ Entered(case[1])
        /\ loop = NotCalled

\* content = content.replace('\r\n', '\n'); tokens = tokenize(content)
Tokenize ==
    /\ pc = "entered"
    /\ content' = NormalizeNewlines(content)
    /\ tokens' = tokenize(content')
    /\ pc' = "tokenized"
    /\ UNCHANGED <<loop, options, original_content, tree, logic_changed, passes, new_content,
                   returned, changed, round>>

\* tree = parse(tokens, content)
Parse ==
    /\ pc = "tokenized"
    /\ \E r \in {parse(tokens, content)} :
          /\ tree' = r.tree
          /\ pc' = IF r.err THEN "raised" ELSE "parsed"
    /\ UNCHANGED <<loop, options, original_content, content, tokens, logic_changed, passes,
                   new_content, returned, changed, round>>

\* lowercase_keys(tree); uppercase_keys(tree); lowercase_yes_no_values(tree)
Canonicalize ==
    /\ pc = "parsed"
    /\ tree' = lowercase_yes_no_values(uppercase_keys(lowercase_keys(tree)))
    /\ pc' = "canonical"
    /\ UNCHANGED <<loop, options, original_content, content, tokens, logic_changed, passes,
                   new_content, returned, changed, round>>

\* optimized_tree, logic_changed = optimize_node_list(tree); passes = 0
OptimizeFirst ==
    /\ pc = "canonical"
    /\ \E r \in {optimize_node_list(tree, NoParent)} :
          /\ tree' = r.list
          /\ logic_changed' = r.changed
          /\ pc' = IF HasErr(r.list) THEN "raised" ELSE "optimizing"
    /\ passes' = 0
    /\ UNCHANGED <<loop, options, original_content, content, tokens, new_content, returned,
                   changed, round>>

\* a loop that goes on while the last pass reported a change, without a bound
OptimizeAgain_Unbounded ==
    /\ pc = "optimizing"
    /\ logic_changed /\ passes < 5
    /\ \E r \in {optimize_node_list(tree, NoParent)} :
          /\ tree' = r.list
          /\ logic_changed' = r.changed
          /\ pc' = IF HasErr(r.list) THEN "raised" ELSE "optimizing"
    /\ passes' = passes + 1
    /\ UNCHANGED <<loop, options, original_content, content, tokens, new_content, returned,
                   changed, round>>

\* the body of: while logic_changed and passes < 3
OptimizeAgain ==
    /\ pc = "optimizing"
    /\ logic_changed /\ passes < 3
    /\ \E r \in {optimize_node_list(tree, NoParent)} :
          /\ tree' = r.list
          /\ logic_changed' = r.changed
          /\ pc' = IF HasErr(r.list) THEN "raised" ELSE "optimizing"
    /\ passes' = passes + 1
    /\ UNCHANGED <<loop, options, original_content, content, tokens, new_content, returned,
                   changed, round>>

\* new_content = block_to_string(optimized_tree), with a final newline
Format ==
    /\ pc = "optimizing"
    /\ ~(logic_changed /\ passes < 3)
    /\ \E printed \in {block_to_string(tree)} :
          /\ new_content' = Relex(IF printed # <<>> /\ printed[Len(printed)] # NL
                                  THEN printed \o <<NL>> ELSE printed)
          /\ pc' = IF \E i \in 1..Len(printed) : printed[i] = ErrLex
                   THEN "raised" ELSE "printed"
    /\ UNCHANGED <<loop, options, original_content, content, tokens, tree, logic_changed, passes,
                   returned, changed, round>>

\* a return that reports a change whatever the text
Return_AlwaysChanged ==
    /\ pc = "printed"
    /\ returned' = new_content
    /\ changed' = TRUE
    /\ pc' = "done"
    /\ UNCHANGED <<loop, options, original_content, content, tokens, tree, logic_changed, passes,
                   new_content, round>>

\* if new_content != original_content: return new_content, True
\* return original_content, False
Return ==
    /\ pc = "printed"
    /\ IF new_content # original_content
       THEN returned' = new_content /\ changed' = TRUE
       ELSE returned' = original_content /\ changed' = FALSE
    /\ pc' = "done"
    /\ UNCHANGED <<loop, options, original_content, content, tokens, tree, logic_changed, passes,
                   new_content, round>>

\* except Exception: return content, False
Except ==
    /\ pc = "raised"
    /\ returned' = content
    /\ changed' = FALSE
    /\ pc' = "failed"
    /\ UNCHANGED <<loop, options, original_content, content, tokens, tree, logic_changed, passes,
                   new_content, round>>

\* the caller processes the text it got back
Reprocess ==
    /\ pc \in {"done", "failed"}
    /\ round < MaxRounds
    /\ round' = round + 1
    /\ pc' = "entered"
    /\ original_content' = returned
    /\ content' = returned
    /\ tokens' = <<>>
    /\ tree' = <<>>
    /\ logic_changed' = FALSE
    /\ passes' = 0
    /\ new_content' = <<>>
    /\ returned' = <<>>
    /\ changed' = FALSE
    /\ UNCHANGED <<loop, options>>

Next ==
    \/ Tokenize
    \/ Parse
    \/ Canonicalize
    \/ OptimizeFirst
    \/ OptimizeAgain
    \/ Format
    \/ Return
    \/ Except
    \/ Reprocess

Spec == Init /\ [][Next]_vars

(***************************************************************************)
(* 10. optimize_node_list, one loop iteration at a time                    *)
(***************************************************************************)
\* the state on entry to optimize_node_list(node_list, parent_key)
Called(node_list, parent_key, depth, ran) ==
    [NotCalled EXCEPT !.at = "R1", !.node_list = node_list, !.parent_key = parent_key,
                      !.i = 1, !.depth = depth, !.ran = ran]

\* the lists process_text gives to optimize_node_list: t, then the result of
\* each pass that reported a change, while n further passes are allowed
RECURSIVE PassInputs(_, _)
PassInputs(t, n) ==
    {t} \cup UNION {IF n > 0 /\ r.changed /\ ~HasErr(r.list) THEN PassInputs(r.list, n - 1)
                    ELSE {} : r \in {optimize_node_list(t, NoParent)}}

\* the lists that process_text gives to optimize_node_list for a text: the
\* first call and the calls of `while logic_changed and passes < 3`
ListsGiven(text) ==
    UNION {IF r.err THEN {}
           ELSE PassInputs(lowercase_yes_no_values(uppercase_keys(lowercase_keys(r.tree))),
                           3)
           : r \in {parse(tokenize(NormalizeNewlines(text)), NormalizeNewlines(text))}}

LoopInit ==
    \E case \in Cases :
        /\ USE_COUNT_TRIGGERS = case[2].count
        /\ USE_ANY_TRIGGERS = case[2].any
        /\ NO_COMPACT = case[2].no_compact
        /\ pc = "entered"
        /\ round = 1
        /\ Entered(case[1])
        /\ \E t \in ListsGiven(case[1]) : loop = Called(t, NoParent, 0, {})

\* the variables of process_text, which the loops leave alone
process_vars ==
    <<USE_COUNT_TRIGGERS, USE_ANY_TRIGGERS, NO_COMPACT, pc, original_content, content,
      tokens, tree, logic_changed, passes, new_content, returned, changed, round>>

\* one iteration of `while i < len(node_list)`, the NOT/comparison/NOR merge
MergeComparisonsIter ==
    /\ loop.at = "R1"
    /\ loop.i <= Len(loop.node_list)
    /\ \E s \in {MergeComparisonsStep(loop.node_list, loop.i, loop.acc, FALSE)} :
          loop' = [loop EXCEPT !.i = s.i, !.acc = s.acc,
                               !.ran = IF s.chg THEN @ \cup {"R1"} ELSE @]
    /\ UNCHANGED process_vars

\* the end of that loop, the hoisting of AND blocks and the merge of sibling
\* blocks; the second for loop begins
MergeComparisonsExit ==
    /\ loop.at = "R1"
    /\ loop.i > Len(loop.node_list)
    /\ \E r \in {MergeSiblings(HoistAnd(loop.acc, loop.parent_key).list, loop.parent_key,
                               1, <<>>, <<>>, FALSE)} :
          loop' = [loop EXCEPT !.at = "for", !.origs = Tagged(r.list),
                               !.node_list = Tagged(r.list), !.p = 1, !.i = 0, !.acc = <<>>]
    /\ UNCHANGED process_vars

\* the children lists of the dict with identity p, where the flattening
\* reaches it
RECURSIVE ObjectKids(_, _)
ObjectKids(xs, p) ==
    UNION {IF xs[i].type = "node" /\ xs[i].kind = "block" /\ xs[i].oid = p
           THEN {xs[i].kids}
           ELSE IF xs[i].type = "node" /\ xs[i].kind = "block" /\ xs[i].key \in LogicKeys
           THEN ObjectKids(xs[i].kids, p)
           ELSE {} : i \in DOMAIN xs}

\* after the flattening for the p-th dict: the merge of consecutive negations
\* of the current list, which a non-negatable parent skips
ToMergeNegations(l, flat) ==
    IF l.parent_key \in NON_NEGATABLE_SCOPES
    THEN [l EXCEPT !.at = "for", !.node_list = flat, !.p = l.p + 1, !.kids = <<>>, !.i = 0]
    ELSE [l EXCEPT !.at = "R5", !.node_list = flat, !.i = 1, !.acc = <<>>, !.kids = <<>>]

\* the second for loop takes its p-th dict
ForNode ==
    /\ loop.at = "for"
    /\ loop.p <= Len(loop.origs)
    /\ \E node \in {loop.origs[loop.p]} :
          IF node.type = "node" /\ node.kind = "block" /\ node.key \in LogicKeys
          THEN \E kids \in (IF ObjectKids(loop.node_list, loop.p) = {} THEN {node.kids}
                            ELSE ObjectKids(loop.node_list, loop.p)) :
                  loop' = [loop EXCEPT !.at = "R4", !.key = node.key, !.kids = kids, !.i = 1]
          ELSE loop' = ToMergeNegations(loop, loop.node_list)
    /\ UNCHANGED process_vars

\* a flattening that leaves the index where it is and the children as they are
FlattenIter_NoHoist ==
    /\ loop.at = "R4"
    /\ loop.i <= Len(loop.kids)
    /\ \E s \in {FlattenStep(loop.key, loop.kids, loop.i)} :
          loop' = [loop EXCEPT !.i = s.i,
                               !.ran = IF s.i = loop.i THEN @ \cup {"R4"} ELSE @]
    /\ UNCHANGED process_vars

\* one iteration of `while i < len(node['val'])`, the flattening
FlattenIter ==
    /\ loop.at = "R4"
    /\ loop.i <= Len(loop.kids)
    /\ \E s \in {FlattenStep(loop.key, loop.kids, loop.i)} :
          loop' = [loop EXCEPT !.kids = s.kids, !.i = s.i,
                               !.ran = IF s.i = loop.i THEN @ \cup {"R4"} ELSE @]
    /\ UNCHANGED process_vars

\* the end of the flattening of the p-th dict
FlattenExit ==
    /\ loop.at = "R4"
    /\ loop.i > Len(loop.kids)
    /\ loop' = ToMergeNegations(loop, FlattenShared(loop.node_list, loop.p, loop.key))
    /\ UNCHANGED process_vars

\* one iteration of `while i < len(node_list)`, the merge of consecutive
\* negations
MergeNegationsIter ==
    /\ loop.at = "R5"
    /\ loop.i <= Len(loop.node_list)
    /\ \E s \in {MergeNegationsStep(loop.node_list, loop.parent_key, loop.i, loop.acc, FALSE)} :
          loop' = [loop EXCEPT !.i = s.i, !.acc = s.new_list,
                               !.ran = IF s.chg THEN @ \cup {"R5"} ELSE @]
    /\ UNCHANGED process_vars

\* node_list = new_list, and the for loop goes on
MergeNegationsExit ==
    /\ loop.at = "R5"
    /\ loop.i > Len(loop.node_list)
    /\ loop' = [loop EXCEPT !.at = "for", !.node_list = loop.acc, !.p = loop.p + 1,
                            !.i = 0, !.acc = <<>>]
    /\ UNCHANGED process_vars

\* the second for loop has ended; the third loop begins
ForExit ==
    /\ loop.at = "for"
    /\ loop.p > Len(loop.origs)
    /\ loop' = [loop EXCEPT !.at = IF HasErr(loop.node_list) THEN "done" ELSE "third",
                            !.node_list = Untagged(loop.node_list)]
    /\ UNCHANGED process_vars

\* the blocks the third loop calls optimize_node_list for
Recursed(node) ==
    /\ node.type = "node" /\ node.kind = "block"
    /\ node.key \notin RAW_BLOCKS

\* the third loop calls optimize_node_list(node['val'], key) for a block
Descend ==
    /\ loop.at = "third"
    /\ \E k \in DOMAIN loop.node_list :
          /\ Recursed(loop.node_list[k])
          /\ loop' = Called(loop.node_list[k].kids, loop.node_list[k].key, loop.depth + 1,
                            loop.ran)
    /\ UNCHANGED process_vars

\* the third loop reaches the branch for key OR of a block, after the call
\* for its children and the rules that come before the branch
AbsorbEnter ==
    /\ loop.at = "third"
    /\ \E k \in DOMAIN loop.node_list :
          /\ Recursed(loop.node_list[k])
          /\ \E node \in {loop.node_list[k]} :
             \E sub \in {optimize_node_list(node.kids, node.key)} :
                /\ sub.list # <<ErrNode>>
                /\ \E b \in {AndStage(KeyRules(IF sub.changed THEN [node EXCEPT !.kids = sub.list]
                                               ELSE node))} :
                      /\ b.key = "OR"
                      /\ Len(NodesOf(b.node.kids)) # 1
                      /\ loop' = [loop EXCEPT !.at = "R14", !.key = b.key, !.kids = b.node.kids]
    /\ UNCHANGED process_vars

\* one round of `while made_change_ab_not_b` that finds the pattern
AbsorbIter ==
    /\ loop.at = "R14"
    /\ \E s \in {AbsorbStep(loop.kids)} :
          /\ s.again
          /\ loop' = [loop EXCEPT !.kids = s.kids, !.ran = @ \cup {"R14"}]
    /\ UNCHANGED process_vars

\* the round that finds no pattern ends the loop
AbsorbExit ==
    /\ loop.at = "R14"
    /\ \E s \in {AbsorbStep(loop.kids)} :
          /\ ~s.again
          /\ loop' = [loop EXCEPT !.at = "done"]
    /\ UNCHANGED process_vars

\* the third loop has handled every node: return new_list, changed_any
LoopReturn ==
    /\ loop.at = "third"
    /\ loop' = [loop EXCEPT !.at = "done"]
    /\ UNCHANGED process_vars

LoopNext ==
    \/ MergeComparisonsIter
    \/ MergeComparisonsExit
    \/ ForNode
    \/ FlattenIter
    \/ FlattenExit
    \/ MergeNegationsIter
    \/ MergeNegationsExit
    \/ ForExit
    \/ Descend
    \/ AbsorbEnter
    \/ AbsorbIter
    \/ AbsorbExit
    \/ LoopReturn

\* the program is sequential: a loop that can take a step takes it
LoopSpec == LoopInit /\ [][LoopNext]_vars /\ WF_vars(LoopNext)

(***************************************************************************)
(* Properties                                                              *)
(***************************************************************************)
\* the loop of process_text has ended: tree is the tree that is printed
OptimizationDone == pc = "optimizing" /\ ~(logic_changed /\ passes < 3)

\* the tree that the first call of optimize_node_list was given
InputTree ==
    lowercase_yes_no_values(uppercase_keys(lowercase_keys(parse(tokens, content).tree)))

\* [c for c in xs if c['type'] != 'comment']
NonComments(xs) == SelectSeq(xs, LAMBDA c : c.type # "comment")

\* the blocks of a node list, at any depth, each with the key of the block
\* that holds it (parent_key for the blocks of the list itself)
RECURSIVE BlocksIn(_, _)
BlocksIn(xs, parent_key) ==
    UNION {IF IsBlock(xs[i])
           THEN {[parent |-> parent_key, key |-> xs[i].key, kids |-> xs[i].kids]}
                \cup BlocksIn(xs[i].kids, xs[i].key)
           ELSE {} : i \in DOMAIN xs}

\* the comments of a text, as format_comment leaves them
CommentTexts(t) ==
    {RStripLex(format_comment(t[i])) : i \in {j \in DOMAIN t : IsCommentLex(t[j])}}

(***************************************************************************)
(* The propositional reading of a tree.  Atoms are the yes/no keys a, b, c *)
(* and the number has_x, outside and inside the scope owner; a sibling     *)
(* list is a conjunction.                                                  *)
(***************************************************************************)
TopAtoms == {"a", "b", "c"}
ScopedAtoms == {"a", "b"}
Numerals == {"0", "1", "2", "3", "5"}
NumberOf(v) ==
    CASE v = "0" -> 0 [] v = "1" -> 1 [] v = "2" -> 2 [] v = "3" -> 3 [] OTHER -> 5

\* an assignment: the atoms that are true and the values of has_x
Assignments == [top : SUBSET TopAtoms, scoped : SUBSET ScopedAtoms, x : 2..4, ox : 3..4]

Compare(l, o, r) ==
    CASE o = "<" -> l < r [] o = ">" -> l > r [] o = "<=" -> l <= r
      [] o = ">=" -> l >= r [] o = "=" -> l = r [] OTHER -> l # r

\* the trees the reading is defined on
RECURSIVE Readable(_, _)
Readable(n, scoped) ==
    IF n.type = "comment" THEN TRUE
    ELSE IF n.type # "node" \/ n.val_key # "" THEN FALSE
    ELSE IF n.kind = "leaf"
    THEN \/ /\ n.key \in (IF scoped THEN ScopedAtoms ELSE TopAtoms)
            /\ n.op \in {"=", "!="}
            /\ n.val \in {"yes", "no"}
         \/ /\ n.key = "has_x"
            /\ n.op \in CmpOps
            /\ n.val \in Numerals
    ELSE IF n.kind # "block" \/ n.op # "=" THEN FALSE
    ELSE /\ n.key \in {"AND", "OR", "NOR", "NAND", "NOT", "owner"}
         /\ NonComments(n.kids) # <<>>
         /\ n.key = "NOT" => Len(NonComments(n.kids)) = 1
         /\ n.key = "owner" => ~scoped
         /\ \A i \in DOMAIN n.kids : Readable(n.kids[i], scoped \/ n.key = "owner")

ReadableList(xs) == \A i \in DOMAIN xs : Readable(xs[i], FALSE)

RECURSIVE Truth(_, _, _)
Truth(n, asg, scoped) ==
    LET All(sc) == \A i \in DOMAIN n.kids :
                       n.kids[i].type = "comment" \/ Truth(n.kids[i], asg, sc)
        Some == \E i \in DOMAIN n.kids :
                    n.kids[i].type # "comment" /\ Truth(n.kids[i], asg, scoped)
    IN IF n.kind = "leaf"
       THEN IF n.key = "has_x"
            THEN Compare(IF scoped THEN asg.ox ELSE asg.x, n.op, NumberOf(n.val))
            ELSE LET atom == n.key \in (IF scoped THEN asg.scoped ELSE asg.top)
                 IN (n.op = "=") = ((n.val = "yes") = atom)
       ELSE CASE n.key = "AND" -> All(scoped)
              [] n.key = "OR" -> Some
              [] n.key = "NOR" -> ~Some
              [] n.key = "NAND" -> ~All(scoped)
              [] n.key = "NOT" -> ~All(scoped)
              [] OTHER -> All(TRUE)

TruthOfList(xs, asg) ==
    \A i \in DOMAIN xs : xs[i].type = "comment" \/ Truth(xs[i], asg, FALSE)

\* C1: processing the text a call returned returns exactly that text again
\* (round 2 is process_text applied to what round 1 returned).
C1_Idempotent ==
    (round = 2 /\ pc \in {"done", "failed"}) => returned = original_content

\* C2: the optimized tree and the input tree have the same truth value under
\* every assignment, for trees of AND, OR, NOT, NOR, NAND and scope wrappers
\* over yes/no and numeric-comparison leaves.
C2_MeaningPreserved ==
    OptimizationDone =>
        \A input \in {InputTree} :
            (ReadableList(input) /\ ReadableList(tree)) =>
                \A asg \in Assignments :
                    TruthOfList(input, asg) = TruthOfList(tree, asg)

\* C3: the formatted comment texts of the returned text are those of the input.
C3_NoCommentLost ==
    pc \in {"done", "failed"} =>
        CommentTexts(returned) = CommentTexts(original_content)

\* C4: one optimization pass runs unconditionally with the counter at 0; each
\* further pass runs only after a pass that reported a change and while fewer
\* than three further passes have run, so at most four passes run.
C4_PassesBounded ==
    [][/\ pc = "canonical" => (passes' = 0 /\ pc' \in {"optimizing", "raised"})
       /\ passes' # passes => (passes' = 0 \/ passes' = passes + 1)
       /\ passes' = passes + 1 =>
              (pc = "optimizing" /\ logic_changed /\ passes < 3 /\ passes' <= 3)]_vars

\* the fourth pass has run and still reported a change
C4_Witness == pc = "optimizing" /\ passes = 3 /\ logic_changed

\* C5: a call that fails inside returns the text it was given, unchanged, with
\* the changed flag false.
C5_ErrorReturnsInput ==
    pc = "failed" => (returned = original_content /\ changed = FALSE)

\* C6: a call that succeeds reports changed exactly when the text it returns
\* differs from its input, and returns the input itself when it reports no
\* change.
C6_ChangedIffDifferent ==
    pc = "done" =>
        /\ changed <=> returned # original_content
        /\ ~changed => returned = original_content

\* a successful call whose formatted text equals its input
C6_Witness == pc = "done" /\ ~changed /\ new_content = original_content

C8_NorNandAtLeastTwo ==
    OptimizationDone =>
        \A b \in BlocksIn(tree, NoParent) :
            b.key \in {"NOR", "NAND"} => Len(NonComments(b.kids)) >= 2

\* C9: after the passes no AND block is a direct child of the top level or of
\* a block whose key is not OR, NOR, NAND, NOT or calc_true_if.
C9_NoAndInImplicitAnd ==
    OptimizationDone =>
        \A b \in BlocksIn(tree, NoParent) :
            b.key = "AND" => b.parent \in {"OR", "NOR", "NAND", "NOT", "calc_true_if"}

\* C10: after the passes no AND block is a direct child of an AND block and no
\* OR block is a direct child of an OR block.
C10_NoSameOperatorNesting ==
    OptimizationDone =>
        \A b \in BlocksIn(tree, NoParent) :
            /\ b.key = "AND" => b.parent # "AND"
            /\ b.key = "OR" => b.parent # "OR"

\* C11: after every pass, a block with no children at all is found in the
\* tree only if the parsed input already had a block without a child that is
\* no comment.
C11_NoEmptyBlockProduced ==
    pc = "optimizing" =>
        ((\E b \in BlocksIn(tree, NoParent) : b.kids = <<>>) =>
             \E b \in BlocksIn(InputTree, NoParent) : NonComments(b.kids) = <<>>)

\* the blocks of a node list, at any depth, each with the key of the block
\* that holds it
RECURSIVE BlockNodesIn(_, _)
BlockNodesIn(xs, parent_key) ==
    UNION {IF IsBlock(xs[i])
           THEN {[parent |-> parent_key, node |-> xs[i]]}
                \cup BlockNodesIn(xs[i].kids, xs[i].key)
           ELSE {} : i \in DOMAIN xs}

\* every non-comment child is a NOT block or a leaf key = no, and there is one
AllNegated(kids) ==
    /\ NonComments(kids) # <<>>
    /\ \A i \in DOMAIN kids :
           \/ kids[i].type = "comment"
           \/ IsBlock(kids[i]) /\ kids[i].key = "NOT"
           \/ kids[i].type = "node" /\ kids[i].kind = "leaf"
              /\ kids[i].op = "=" /\ kids[i].val = "no"

\* the contents of the NOT blocks and the leaves with yes for no
Unnegated(kids) ==
    Flat([i \in 1..Len(kids) |->
             IF kids[i].type = "comment" THEN <<>>
             ELSE IF IsBlock(kids[i]) THEN NonComments(kids[i].kids)
             ELSE <<[kids[i] EXCEPT !.val = "yes"]>>])

SameNodes(xs, ys) ==
    Len(xs) = Len(ys) /\ \A i \in DOMAIN xs : nodes_are_equal(xs[i], ys[i])

\* C12: an AND block inside an explicit-logic parent that reaches the rules of
\* the third loop with only NOT blocks and leaves key = no as children, one
\* or more, is replaced by one NOR block that holds the contents of the NOT
\* blocks and the leaves with the value yes.
C12_AndOfNegationsBecomesNor ==
    pc \in {"canonical", "optimizing"} =>
        \A e \in BlockNodesIn(tree, NoParent) :
            (e.node.key = "AND" /\ e.parent \in EXPLICIT_LOGIC_KEYS) =>
                \A sub \in {optimize_node_list(e.node.kids, "AND")} :
                    (~HasErr(sub.list) /\ AllNegated(sub.list)) =>
                        \A r \in {OptimizeBlock(e.node, sub)} :
                            /\ Len(r.out) = 1
                            /\ IsBlock(r.out[1])
                            /\ r.out[1].key = "NOR"
                            /\ SameNodes(NonComments(r.out[1].kids),
                                         Unnegated(Dedup(sub.list, 1, <<>>)))

\* the node lists of a tree: the top level and the children of every block,
\* each with the parent_key optimize_node_list is given for it
ListsIn(xs) ==
    {[parent |-> NoParent, list |-> xs]}
    \cup {[parent |-> e.node.key, list |-> e.node.kids] : e \in BlockNodesIn(xs, NoParent)}

\* a node list read as its parent combines it
SameReading(parent_key, before, after) ==
    IF parent_key = NoParent
    THEN (ReadableList(before) /\ ReadableList(after)) =>
             \A asg \in Assignments : TruthOfList(before, asg) = TruthOfList(after, asg)
    ELSE (Readable(Block(parent_key, before), FALSE)
              /\ Readable(Block(parent_key, after), FALSE)) =>
             \A asg \in Assignments :
                 Truth(Block(parent_key, before), asg, FALSE)
                     = Truth(Block(parent_key, after), asg, FALSE)

\* C13: where the first loop of optimize_node_list fuses a NOT/NOR block with
\* a comparison next to it, the list it leaves has the same truth value as the
\* list it was given, read as a list of the parent it belongs to.
C13_AbsorptionPreservesMeaning ==
    pc \in {"canonical", "optimizing"} =>
        \A l \in ListsIn(tree) :
            \A r \in {MergeComparisons(l.list, 1, <<>>, FALSE)} :
                r.changed => SameReading(l.parent, l.list, r.list)

\* xs with the node at i replaced by the nodes ys
Spliced(xs, i, ys) == SubSeq(xs, 1, i - 1) \o ys \o SubSeq(xs, i + 1, Len(xs))

\* a NOT block with several children is read as the NOR the rules make of it
ReadAs(parent_key) == IF parent_key = "NOT" THEN "NOR" ELSE parent_key

\* C14: where the rules for an OR block whose children are all AND blocks
\* emit common members of the ANDs as siblings before the OR, the list that
\* holds the OR has the same truth value before and after, read as a list of
\* its parent.
C14_OrFactorPreservesMeaning ==
    pc \in {"canonical", "optimizing"} =>
        \A l \in ListsIn(tree) :
            \A i \in DOMAIN l.list :
                (IsBlock(l.list[i]) /\ l.list[i].key = "OR") =>
                    \A sub \in {optimize_node_list(l.list[i].kids, "OR")} :
                        (/\ ~HasErr(sub.list)
                         /\ Len(NonComments(sub.list)) > 1
                         /\ \A j \in DOMAIN sub.list :
                                sub.list[j].type = "comment"
                                \/ (IsBlock(sub.list[j]) /\ sub.list[j].key = "AND")) =>
                            \A r \in {OptimizeBlock(l.list[i], sub)} :
                                Len(NonComments(r.out)) > 1 =>
                                    SameReading(ReadAs(l.parent),
                                        Spliced(l.list, i, <<[l.list[i] EXCEPT !.kids = sub.list]>>),
                                        Spliced(l.list, i, r.out))

\* count > 0, count >= 1, count != 0
CountIsPositive(c) ==
    \/ c.op \in {">", "!="} /\ c.val = "0"
    \/ c.op = ">=" /\ c.val = "1"

\* count < 1, count <= 0, count = 0
CountIsNegative(c) ==
    \/ c.op = "<" /\ c.val = "1"
    \/ c.op \in {"<=", "="} /\ c.val = "0"

IsCountLeaf(c) == c.type = "node" /\ c.kind = "leaf" /\ c.key = "count"

\* the only children that are no comments: one count comparison, one limit block
CountAndLimit(ns) ==
    /\ Len(ns) = 2
    /\ \E i \in 1..2 : IsCountLeaf(ns[i]) /\ IsBlock(ns[3 - i]) /\ ns[3 - i].key = "limit"

\* C15: a count_X block, X outside NON_ANY_TRIGGERS, that holds one count
\* comparison and one limit block becomes any_X with the limit's contents
\* when use_any_triggers is set, use_count_triggers is not, and the comparison
\* is count > 0, >= 1 or != 0; it becomes NOT = { any_X } when the comparison
\* is count < 1, <= 0 or = 0; in every other case it stays a count_X block.
C15_CountToAny ==
    pc \in {"canonical", "optimizing"} =>
        \A e \in BlockNodesIn(tree, NoParent) :
            (StartsCount(e.node.key) /\ e.node.key \notin NON_ANY_TRIGGERS) =>
                \A sub \in {optimize_node_list(e.node.kids, e.node.key)} :
                    \A r \in {OptimizeBlock(e.node, sub)} :
                        (~HasErr(sub.list) /\ ~HasErr(r.out)) =>
                            \A ns \in {NonComments(sub.list)} :
                                \A on \in {/\ USE_ANY_TRIGGERS /\ ~USE_COUNT_TRIGGERS
                                           /\ CountAndLimit(ns)} :
                                    \A c \in {IF on /\ IsCountLeaf(ns[2]) THEN 2 ELSE 1} :
                                        /\ Len(r.out) = 1
                                        /\ IsBlock(r.out[1])
                                        /\ IF on /\ CountIsPositive(ns[c])
                                           THEN /\ r.out[1].key = AnyOfCount(e.node.key)
                                                /\ SameNodes(NonComments(r.out[1].kids),
                                                             NonComments(ns[3 - c].kids))
                                           ELSE IF on /\ CountIsNegative(ns[c])
                                           THEN /\ r.out[1].key = "NOT"
                                                /\ \A inner \in {NonComments(r.out[1].kids)} :
                                                       /\ Len(inner) = 1
                                                       /\ IsBlock(inner[1])
                                                       /\ inner[1].key = AnyOfCount(e.node.key)
                                                       /\ SameNodes(NonComments(inner[1].kids),
                                                                    NonComments(ns[3 - c].kids))
                                           ELSE r.out[1].key = e.node.key

\* the first lexeme after position i that is no blank, 0 if there is none
NextInk(t, i) ==
    LET ink == {j \in (i + 1)..Len(t) : t[j] \notin {" ", "\t"}}
    IN IF ink = {} THEN 0 ELSE CHOOSE j \in ink : \A k \in ink : j <= k

\* every opening brace of a text ends its line, but for a comment after it
OpensEndLines(t) ==
    \A i \in DOMAIN t :
        t[i] = "{" =>
            \A j \in {NextInk(t, i)} : j = 0 \/ t[j] = NL \/ IsCommentLex(t[j])

\* C16: with no_compact set, no block of the printed text has a child on the
\* line of its opening brace.
C16_NoCompactPrintsExpanded ==
    (NO_COMPACT /\ pc \in {"printed", "done"}) => OpensEndLines(new_content)

\* a leaf the negation of comparisons applies to: key OP number, with a
\* has_/num_ key where OP is =
IsNegatableComparison(c) ==
    /\ c.type = "node" /\ c.kind = "leaf"
    /\ c.op \in CmpOps
    /\ IsDecimal(c.val)
    /\ c.op = "=" => StartsHasNum(c.key)

\* C17: a NOT block whose only child is a negatable comparison is replaced by
\* that comparison with its operator flipped by the table < to >=, > to <=,
\* <= to >, >= to <, = to != and != to =.
C17_NegationUsesFlipTable ==
    pc \in {"canonical", "optimizing"} =>
        \A e \in BlockNodesIn(tree, NoParent) :
            \A ns \in {NonComments(e.node.kids)} :
                (e.node.key = "NOT" /\ Len(ns) = 1 /\ IsNegatableComparison(ns[1])) =>
                    \A r \in {OptimizeBlock(e.node,
                                  optimize_node_list(e.node.kids, "NOT"))} :
                        \A out \in {NonComments(r.out)} :
                            /\ Len(out) = 1
                            /\ out[1].kind = "leaf"
                            /\ out[1].key = ns[1].key
                            /\ out[1].val = ns[1].val
                            /\ out[1].op = negated_ops(ns[1].op)

\* the non-negatable blocks of a node list, at any depth
NonNegatableIn(xs) == {b \in BlocksIn(xs, NoParent) : b.key \in NON_NEGATABLE_SCOPES}

\* C18: the processing of a NOT block leaves every non-negatable block (if,
\* else_if, else, while, switch, calc_true_if) under it with the children it
\* had: no value or operator inside it is negated.
C18_NonNegatableUntouched ==
    pc \in {"canonical", "optimizing"} =>
        \A e \in BlockNodesIn(tree, NoParent) :
            e.node.key = "NOT" =>
                \A sub \in {optimize_node_list(e.node.kids, "NOT")} :
                    ~HasErr(sub.list) =>
                        \A r \in {OptimizeBlock(e.node, sub)} :
                            \A b \in NonNegatableIn(r.out) :
                                \E b0 \in NonNegatableIn(sub.list) :
                                    /\ b0.key = b.key
                                    /\ SameNodes(NonComments(b.kids), NonComments(b0.kids))

\* C19: where the flattening of an OR, AND, NOR or NAND block inlines a
\* child block, the block has the same truth value before and after under
\* every assignment.
C19_FlatteningPreservesMeaning ==
    pc \in {"canonical", "optimizing"} =>
        \A e \in BlockNodesIn(tree, NoParent) :
            e.node.key \in LogicKeys =>
                \A flat \in {FlattenKids(e.node.key, e.node.kids, 1)} :
                    flat # e.node.kids =>
                        SameReading(e.node.key, e.node.kids, flat)

\* C20: the loop of the OR rule that takes a member B out of an AND child
\* when the negation of B is another child keeps the number of children of
\* the OR (the negation of B, what is left of the AND, and every other
\* child) and keeps every child that is no AND block, where every AND child
\* has two members or more.
C20_AbsorptionKeepsChildren ==
    pc \in {"canonical", "optimizing"} =>
        \A e \in BlockNodesIn(tree, NoParent) :
            e.node.key = "OR" =>
                \A sub \in {optimize_node_list(e.node.kids, "OR")} :
                    \A before \in {NonComments(sub.list)} :
                        (/\ ~HasErr(sub.list)
                         /\ \A i \in DOMAIN before :
                                (IsBlock(before[i]) /\ before[i].key = "AND") =>
                                    Len(NonComments(before[i].kids)) >= 2) =>
                            \A r \in {AbsorbNegated(sub.list, FALSE)} :
                                r.changed =>
                                    \A after \in {NonComments(r.kids)} :
                                        /\ Len(after) = Len(before)
                                        /\ \A i \in DOMAIN before :
                                               (IsBlock(before[i]) /\ before[i].key = "AND")
                                               \/ \E j \in DOMAIN after :
                                                      nodes_are_equal(after[j], before[i])

\* C21: a block of the input whose key is a raw-block key and that the parser
\* left an ordinary block is still in the tree after every pass, with the
\* children it had.
C21_RawKeyBlockKept ==
    pc = "optimizing" =>
        \A b \in BlocksIn(InputTree, NoParent) :
            b.key \in RAW_BLOCKS =>
                \E b2 \in BlocksIn(tree, NoParent) :
                    b2.key = b.key /\ SameNodes(NonComments(b2.kids), NonComments(b.kids))

\* the number of braces still open after the first k tokens
BraceDepth(toks, k) ==
    Cardinality({j \in 1..k : toks[j].val = "{"}) - Cardinality({j \in 1..k : toks[j].val = "}"})

\* C22: when the tokens end with a block still open, every top-level entry
\* that parse had completed before a point where no brace was open (every entry
\* of the parse of those tokens but the last, which the next token may extend)
\* is in the list that parse returns.
C22_PartialTreeReturned ==
    (pc = "parsed" /\ BraceDepth(tokens, Len(tokens)) > 0) =>
        \A k \in 1..Len(tokens) :
            BraceDepth(tokens, k) = 0 =>
                \A p \in {parse(SubSeq(tokens, 1, k), content)} :
                    ~p.err =>
                        \A j \in 1..(Len(p.tree) - 1) :
                            \E m \in DOMAIN tree : tree[m] = p.tree[j]

\* after is before with the value of every leaf whose value is in S lowercased
\* and with nothing else changed: same entries in the same order, same keys,
\* same operators, same comments, blocks with the same structure
RECURSIVE ValuesLowered(_, _, _)
ValuesLowered(before, after, S) ==
    /\ Len(after) = Len(before)
    /\ \A i \in DOMAIN before :
          IF IsBlock(before[i])
          THEN /\ IsBlock(after[i])
               /\ [after[i] EXCEPT !.kids = <<>>] = [before[i] EXCEPT !.kids = <<>>]
               /\ ValuesLowered(before[i].kids, after[i].kids, S)
          ELSE IF before[i].type = "node" /\ before[i].kind = "leaf" /\ before[i].val \in S
          THEN after[i] = [before[i] EXCEPT !.val = Lower(before[i].val)]
          ELSE after[i] = before[i]

\* the leaf values of a node list, at any depth
RECURSIVE LeafValues(_)
LeafValues(xs) ==
    UNION {IF IsBlock(xs[i]) THEN LeafValues(xs[i].kids)
           ELSE IF xs[i].type = "node" /\ xs[i].kind = "leaf" THEN {xs[i].val}
           ELSE {} : i \in DOMAIN xs}

\* C23 as stated: the yes/no canonicalization lowercases the leaf values Yes,
\* No, YES, NO, From and FROM, changes nothing else, and a second run changes
\* nothing.
C23_OnlyYesNoFromLowered ==
    pc = "parsed" =>
        \A before \in {uppercase_keys(lowercase_keys(tree))} :
            \A after \in {lowercase_yes_no_values(before)} :
                /\ ValuesLowered(before, after, {"Yes", "No", "YES", "NO", "From", "FROM"})
                /\ lowercase_yes_no_values(after) = after

\* C23 amended: the canonicalization lowercases the leaf values of
\* VAL_KEYWORDS_TO_LOWER (the scope words ROOT, PREV, THIS, Owner, ... besides
\* Yes, No, YES, NO, From, FROM), changes nothing else, and a second run
\* changes nothing.
C23_ValKeywordsLowered ==
    pc = "parsed" =>
        \A before \in {uppercase_keys(lowercase_keys(tree))} :
            \A after \in {lowercase_yes_no_values(before)} :
                /\ ValuesLowered(before, after, VAL_KEYWORDS_TO_LOWER)
                /\ lowercase_yes_no_values(after) = after

\* a parsed tree with a nested block that holds a scope word and Yes as values
C23_Witness ==
    /\ pc = "canonical"
    /\ \E b \in BlocksIn(parse(tokens, content).tree, NoParent) :
          {"THIS", "Yes"} \subseteq LeafValues(b.kids)
    /\ LeafValues(tree) \cap VAL_KEYWORDS_TO_LOWER = {}

\* the blocks of a node list, at any depth, each with the depth it is printed at
RECURSIVE BlocksAtDepth(_, _)
BlocksAtDepth(xs, depth) ==
    UNION {IF IsBlock(xs[i])
           THEN {[node |-> xs[i], depth |-> depth]} \cup BlocksAtDepth(xs[i].kids, depth + 1)
           ELSE {} : i \in DOMAIN xs}

\* C24: a block with an open comment, printed at its depth, is printed on
\* several lines and its open comment is in the printed text, whatever its
\* children, the empty list included.
C24_OpenCommentNeverCompact ==
    OptimizationDone =>
        \A b \in BlocksAtDepth(tree, 0) :
            b.node.cm_open # <<>> =>
                \A s \in {node_to_string(b.node, b.depth, FALSE)} :
                    /\ \E i \in DOMAIN s : s[i] = NL
                    /\ \E i \in DOMAIN s : s[i] = b.node.cm_open[Len(b.node.cm_open)]

\* C25: a switch block that is printed as its raw source span has the children
\* the parser gave it: no key, value or block inside was rewritten.
C25_RawSwitchOnlyIfUnchanged ==
    OptimizationDone =>
        \A b \in BlocksAtDepth(tree, 0) :
            (/\ b.node.key = "switch" /\ b.node.raw # <<>>
             /\ node_to_string(b.node, b.depth, FALSE) = RawToString(b.node.raw, Indent(b.depth)))
            => \E b0 \in BlocksAtDepth(parse(tokens, content).tree, 0) :
                   b0.node.raw = b.node.raw /\ b0.node.kids = b.node.kids

\* the raw blocks of a node list, at any depth, each with the depth it is
\* printed at
RECURSIVE RawBlocksAtDepth(_, _)
RawBlocksAtDepth(xs, depth) ==
    UNION {IF xs[i].type = "raw_block" THEN {[node |-> xs[i], depth |-> depth]}
           ELSE IF IsBlock(xs[i]) THEN RawBlocksAtDepth(xs[i].kids, depth + 1)
           ELSE {} : i \in DOMAIN xs}

\* the number of lexemes l in a text
CountLex(t, l) == Cardinality({i \in DOMAIN t : t[i] = l})

\* C26: a raw block is printed with as many opening and as many closing braces
\* as its source span has.
C26_RawBlockKeepsBraces ==
    OptimizationDone =>
        \A b \in RawBlocksAtDepth(tree, 0) :
            \A s \in {node_to_string(b.node, b.depth, FALSE)} :
                /\ CountLex(s, "{") = CountLex(b.node.raw, "{")
                /\ CountLex(s, "}") = CountLex(b.node.raw, "}")

\* C27: every operator-less block of the printed tree is, in the parse of the
\* printed text, again an operator-less block with the same key and the same
\* children.
C27_OperatorLessRoundTrip ==
    pc = "printed" =>
        \A b \in BlockNodesIn(tree, NoParent) :
            b.node.op = "None" =>
                \E b2 \in BlockNodesIn(parse(tokenize(new_content), new_content).tree, NoParent) :
                    /\ b2.node.key = b.node.key
                    /\ b2.node.op = "None"
                    /\ SameNodes(NonComments(b2.node.kids), NonComments(b.node.kids))

\* the words a node list holds, at any depth, in order: keys, val_keys, leaf
\* values, and the lexemes of raw blocks
RECURSIVE TreeWords(_)
TreeWords(xs) ==
    Flat([i \in DOMAIN xs |->
            IF xs[i].type = "raw_block" THEN xs[i].raw
            ELSE IF xs[i].type # "node" THEN <<>>
            ELSE <<xs[i].key>>
                 \o (IF xs[i].val_key # "" THEN <<xs[i].val_key>> ELSE <<>>)
                 \o (IF xs[i].kind = "leaf" THEN <<xs[i].val>> ELSE <<>>)
                 \o (IF xs[i].kind = "block" THEN TreeWords(xs[i].kids) ELSE <<>>)])

\* no closing brace without an opening one before it, and none left open
Balanced(toks) ==
    /\ BraceDepth(toks, Len(toks)) = 0
    /\ \A k \in 1..Len(toks) : BraceDepth(toks, k) >= 0

\* C28: the tree parsed from a brace-balanced input holds every word and every
\* string of the input, as often as the input does.
C28_ParserKeepsWords ==
    (pc = "parsed" /\ Balanced(tokens)) =>
        \A words \in {TreeWords(tree)} :
            \A w \in {tokens[k].val : k \in {j \in DOMAIN tokens : tokens[j].type \in {"word", "str"}}} :
                Cardinality({k \in DOMAIN tokens : tokens[k].val = w})
                    <= CountLex(words, w)

\* C30: a call whose input has balanced braces and is parsed without an error
\* never reaches the except clause.
C30_WellFormedNeverFails ==
    pc \in {"raised", "failed"} =>
        \A toks \in {tokenize(content)} :
            ~(Balanced(toks) /\ ~parse(toks, content).err)

\* C29: every call of optimize_node_list comes to its end: each of its while
\* loops, taken one iteration at a time, leaves its loop, and the recursion
\* into children returns.
C29_LoopsTerminate == <>(loop.at = "done")

\* a call at depth one or more has ended after a flattening hoisted a child
\* and rescanned
C29_Witness == loop.at = "done" /\ loop.depth > 0 /\ "R4" \in loop.ran
====
